---------------------------- MODULE Spec2Model ----------------------------
(***************************************************************************)
(* Model of the XeriaCO backend's job orchestration engine: the pipeline   *)
(* run lifecycle (routes/pipeline executePipeline and its triggers), the   *)
(* validation stage, TrendScout's scoring, and the marketing content /     *)
(* approval / social posting subsystem (MarketingOrchestrator,             *)
(* SocialPoster).                                                          *)
(*                                                                         *)
(* Money is in cents, margins in hundredths of a percent, time in units of *)
(* 30 minutes.                                                             *)
(***************************************************************************)
EXTENDS Integers, Sequences, FiniteSets, TLC

VARIABLES
    \* ---- TrendScout scoring ----
    item,        \* the product object handed to scoreProduct
    itemIn,      \* history: the object as it was before the first call
    scoreHist,   \* history: the trendScore left by each call, in call order
    \* ---- pipeline runs ----
    runDb,       \* PipelineRun collection: run id -> persisted document
    runMem,      \* the in-memory PipelineRun document each executePipeline holds
    rpc,         \* where each run's executePipeline (or its launcher) stands
    rloc,        \* executePipeline's local variables, per run
    catalog,     \* Product collection, in natural (insertion) order
    reqs,        \* start-run requests between their read and their create
    resp,        \* the response given to the latest start-run request
    faultsLeft,  \* how many more provider / persistence calls may throw
    threw,       \* history: per run, the stages in which a call threw
    ran,         \* history: per run, the stages that began
    saveFailed,  \* history: per run, whether a run.save() threw
    \* ---- SocialPoster ----
    now,         \* Date.now()
    enabled,     \* igEnabled / metaEnabled / pinterestEnabled, per channel
    lastPostTime,\* channel -> time of the last recorded post (0: no entry)
    post,        \* the postProductToAll calls: slot -> call record
    \* ---- MarketingOrchestrator ----
    pendingProducts, \* the social posting queue
    isProcessing,    \* the queue consumer's flag
    qpc,         \* where processSocialQueue stands
    qwake,       \* when the consumer's setTimeout(postDelayMs) is due
    stats,       \* the orchestrator's counters
    content,     \* MarketingContent collection: id -> document
    ctask,       \* the approve / reject / regenerate calls: slot -> call record
    productExists, \* whether Product.findById finds the content's product
    isEnabled    \* contentGenerator.isEnabled

scoreVars == <<item, itemIn, scoreHist>>

runState == <<runDb, runMem, rpc, rloc, catalog, reqs, resp, threw, ran,
              saveFailed>>

runVars == <<runState, faultsLeft>>

posterVars == <<now, enabled, lastPostTime, post>>

queueVars == <<pendingProducts, isProcessing, qpc, qwake>>

contentVars == <<content, ctask, productExists, isEnabled>>

mktVars == <<posterVars, queueVars, stats, contentVars>>

\* what the actions of one part leave alone
nonScoreVars == <<runVars, mktVars>>
nonRunVars == <<scoreVars, mktVars>>
nonMktVars == <<scoreVars, runState>>

vars == <<item, itemIn, scoreHist, runDb, runMem, rpc, rloc, catalog, reqs,
          resp, faultsLeft, threw, ran, saveFailed, now, enabled,
          lastPostTime, post, pendingProducts, isProcessing, qpc, qwake,
          stats, content, ctask, productExists, isEnabled>>

Min(a, b) == IF a <= b THEN a ELSE b

(***************************************************************************)
(* TrendScout.scoreProduct                                                 *)
(***************************************************************************)
\* bound: how often the same product object is scored again
MaxScoreCalls == 2

\* trendScore of an object that has no such field yet (a CJ item)
NoScore == -1

OrderSamples == {0, 100, 101, 500, 501, 1000, 1001, 5000, 5001, 10000, 10001}
CostSamples  == {0, 1, 499, 500, 5000, 5001, 10000, 10001, 20000, 20001}
\* category strings as the sources deliver them; "" stands for a missing field
CategorySamples == {"", "General", "Home & Garden", "fitness", "Pet Supplies"}

\* (product.category || '').toLowerCase() includes one of highDemandCategories
highDemandMatch(category) ==
    CASE category = ""              -> FALSE
      [] category = "General"       -> FALSE
      [] category = "fitness"       -> FALSE
      [] category = "Home & Garden" -> TRUE    \* contains 'home' and 'garden'
      [] category = "Pet Supplies"  -> TRUE    \* contains 'pet'
      [] OTHER                      -> FALSE

\* sales velocity tiers
salesBonus(p) ==
    IF p.orders > 10000 THEN 25
    ELSE IF p.orders > 5000 THEN 20
    ELSE IF p.orders > 1000 THEN 15
    ELSE IF p.orders > 500 THEN 10
    ELSE IF p.orders > 100 THEN 5
    ELSE 0

\* const cost = product.costAud || product.costUsd || 0  (cents)
scoreCost(p) == IF p.costAud # 0 THEN p.costAud ELSE p.costUsd

costBonus(p) ==
    LET cost == scoreCost(p) IN
    IF cost >= 500 /\ cost <= 5000 THEN 20
    ELSE IF cost > 5000 /\ cost <= 10000 THEN 15
    ELSE IF cost > 10000 /\ cost <= 20000 THEN 10
    ELSE IF cost > 0 /\ cost < 500 THEN 5
    ELSE 0

categoryBonus(p) == IF highDemandMatch(p.category) THEN 10 ELSE 0

imageBonus(p) == IF p.image THEN 5 ELSE 0

nameBonus(p) == IF p.nameLen > 10 THEN 5 ELSE 0

\* a plausible slip: the score accumulates onto the object's previous score
scoreProductAccumulating(p) ==
    LET start == IF p.trendScore = NoScore THEN 0 ELSE p.trendScore
        score == start + 15 + salesBonus(p) + costBonus(p) + categoryBonus(p)
                  + imageBonus(p) + nameBonus(p)
    IN  [p EXCEPT !.trendScore = Min(score, 100)]

\* let score = 0; score += ...; product.trendScore = Math.min(score, 100);
\* return product  -- the argument itself, with its trendScore overwritten
scoreProduct(p) ==
    LET score == 0 + 15 + salesBonus(p) + costBonus(p) + categoryBonus(p)
                  + imageBonus(p) + nameBonus(p)
    IN  [p EXCEPT !.trendScore = Min(score, 100)]

ScoreItems ==
    [orders : OrderSamples, costAud : CostSamples, costUsd : {0, 700},
     category : CategorySamples, image : BOOLEAN, nameLen : {0, 10, 11},
     trendScore : {NoScore, 60}]

ScoreIdle ==
    /\ item = [orders |-> 0, costAud |-> 0, costUsd |-> 0, category |-> "",
               image |-> FALSE, nameLen |-> 0, trendScore |-> NoScore]
    /\ itemIn = item
    /\ scoreHist = <<>>

ScoreInit ==
    /\ item \in ScoreItems
    /\ itemIn = item
    /\ scoreHist = <<>>

\* allProducts.map(p => this.scoreProduct(p)), and any later call on the
\* same object
ScoreProduct ==
    /\ Len(scoreHist) < MaxScoreCalls
    /\ item' = scoreProduct(item)
    /\ scoreHist' = Append(scoreHist, item'.trendScore)
    /\ UNCHANGED itemIn
    /\ UNCHANGED nonScoreVars

(***************************************************************************)
(* PipelineRun and Product documents                                       *)
(***************************************************************************)
\* bounds: run records ever created, catalog size, calls that throw
MaxRuns == 2
NumProducts == 2
MaxFaults == 2
\* bound: calls that throw while several runs or calls are followed at once
MaxInterleavedFaults == 1

RunIds == 1..MaxRuns

Triggers == {"manual", "webhook", "cron", "openclaw"}

\* run.config?.maxProducts || N, per stage
DefaultValidateMax == 50
DefaultListMax == 20
\* the webhook's config: { maxProducts: maxProducts || 50 }
WebhookDefaultMax == 50

NoRun == [status |-> "none"]

NoResponse ==
    [trigger |-> "", result |-> "none", activeAtRead |-> FALSE,
     activeAtSave |-> FALSE, runId |-> 0]

\* new PipelineRun({...}): schema defaults for everything not given;
\* maxProducts = 0 stands for a run without config.maxProducts
NewRun(trigger, status, started, maxProducts) ==
    [status |-> status, triggeredBy |-> trigger, started |-> started,
     completed |-> FALSE, durationSet |-> FALSE, maxProducts |-> maxProducts,
     logs |-> <<>>, errors |-> <<>>,
     productsDiscovered |-> 0, productsValidated |-> 0,
     productsRejected |-> 0, productsListed |-> 0, productsAutoListed |-> 0]

NoLocals ==
    [cands |-> <<>>, idx |-> 1, validated |-> 0, rejected |-> 0,
     toList |-> <<>>, lidx |-> 1, listed |-> 0]

\* rejection reasons: the text, and the number formatted into it
NoReason == [text |-> "", value |-> 0]
NoCostData == [text |-> "No cost data", value |-> 0]
NoSupplier == [text |-> "No supplier found", value |-> 0]
LowMargin(tenths) == [text |-> "Low margin", value |-> tenths]

\* Number.prototype.toFixed(1) on a margin given in hundredths of a percent:
\* the nearest tenth (samples avoid exact halves)
toFixed1(m) == IF m >= 0 THEN (m + 5) \div 10 ELSE 0 - ((5 - m) \div 10)

\* a Product as the pipeline reads and writes it
Product(cost, margin, score, supplierUrl) ==
    [costUsd |-> cost, profitMarginPercent |-> margin, researchScore |-> score,
     supplierUrl |-> supplierUrl, isActive |-> TRUE, approved |-> FALSE,
     approvedAt |-> FALSE, rejectionReason |-> NoReason, runId |-> 0,
     woocommerceProductId |-> "null", status |-> "", sellingPriceAud |-> 0,
     comparePriceAud |-> 0]

\* catalog states the pipeline can meet
ProductSamples ==
    { Product(800, 1996, 30, TRUE),     \* margin 19.96%
      Product(800, 2000, 30, FALSE),    \* no supplier URL
      Product(800, 2000, 30, TRUE),     \* score at the bar
      Product(800, 3500, 29, TRUE),     \* margin at the bar
      Product(800, 2000, 29, TRUE),     \* below both bars
      Product(0, 4000, 30, TRUE) }      \* no cost
    \cup { [Product(800, 4000, 30, TRUE) EXCEPT !.rejectionReason = NoSupplier],
           [Product(800, 4000, 30, TRUE) EXCEPT !.approved = TRUE,
                                                !.approvedAt = TRUE,
                                                !.woocommerceProductId = "absent",
                                                !.sellingPriceAud = 2000] }

\* what trendScout.scan() can return: a Brave Search item (no cost, no
\* supplier URL)
ScanSamples ==
    { [costUsd |-> 0, trendScore |-> 15, supplierUrl |-> FALSE] }

\* ascending sequence of a finite set of numbers
SortedSeq(S) ==
    CHOOSE s \in [1..Cardinality(S) -> S] :
        \A i, j \in 1..Cardinality(S) : i < j => s[i] < s[j]

\* .limit(n) on a result in natural order
Take(s, n) == SubSeq(s, 1, Min(Len(s), n))

\* v || d
OrDefault(v, d) == IF v # 0 THEN v ELSE d

\* PipelineRun.findOne({ status: { $in: ['queued', 'running'] } })
ActiveRuns == { r \in RunIds : runDb[r].status \in {"queued", "running"} }

FreeRunIds ==
    LET unused == { r \in RunIds : runDb[r] = NoRun /\ rpc[r] = "none" }
    IN  { r \in unused : \A s \in unused : r <= s }

Log(run, level, message) ==
    [run EXCEPT !.logs = Append(@, level)]

PushError(run, stage, message) ==
    [run EXCEPT !.errors = Append(@, [stage |-> stage, message |-> message])]

(***************************************************************************)
(* Start-run triggers                                                      *)
(***************************************************************************)
\* The admission read of the manual route, the webhook and the cron job:
\* findOne an active run; if there is one, answer Conflict (409 / skip) and
\* create nothing.
AdmissionCheck(trigger, maxProducts) ==
    /\ UNCHANGED nonRunVars
    /\ trigger \in {"manual", "webhook", "cron"}
    /\ IF ActiveRuns # {}
       THEN /\ resp' = [trigger |-> trigger, result |-> "conflict",
                                   activeAtRead |-> TRUE, activeAtSave |-> TRUE,
                                   runId |-> 0]
            /\ UNCHANGED reqs
       ELSE /\ reqs' = reqs \cup {[trigger |-> trigger,
                                   maxProducts |-> maxProducts]}
            /\ UNCHANGED resp
    /\ UNCHANGED <<runDb, runMem, rpc, rloc, catalog, faultsLeft, threw, ran,
                   saveFailed>>

\* an admission whose create re-reads the active runs and refuses when there
\* is one (a read and create that are atomic together)
AdmissionCreateAtomic(q, r, ok) ==
    /\ UNCHANGED nonRunVars
    /\ q \in reqs
    /\ r \in FreeRunIds
    /\ reqs' = reqs \ {q}
    /\ IF ActiveRuns # {}
       THEN /\ resp' = [trigger |-> q.trigger, result |-> "conflict",
                        activeAtRead |-> TRUE, activeAtSave |-> TRUE,
                        runId |-> 0]
            /\ UNCHANGED <<runDb, runMem, rpc, faultsLeft>>
       ELSE IF ok
       THEN LET run == IF q.trigger = "cron"
                       THEN NewRun("cron", "queued", FALSE, 0)
                       ELSE NewRun(q.trigger, "running", TRUE, q.maxProducts)
            IN  /\ runDb' = [runDb EXCEPT ![r] = run]
                /\ runMem' = [runMem EXCEPT ![r] = run]
                /\ rpc' = [rpc EXCEPT ![r] = "start"]
                /\ resp' = [trigger |-> q.trigger, result |-> "started",
                            activeAtRead |-> FALSE, activeAtSave |-> FALSE,
                            runId |-> r]
                /\ UNCHANGED faultsLeft
       ELSE /\ faultsLeft > 0
            /\ faultsLeft' = faultsLeft - 1
            /\ resp' = [trigger |-> q.trigger, result |-> "error",
                        activeAtRead |-> FALSE, activeAtSave |-> FALSE,
                        runId |-> 0]
            /\ UNCHANGED <<runDb, runMem, rpc>>
    /\ UNCHANGED <<rloc, catalog, threw, ran, saveFailed>>

\* new PipelineRun({...}); await run.save(); then executePipeline(run) is
\* launched.  manual, webhook: status 'running' with startedAt; cron: 'queued'.
\* A save that throws answers 500 (cron: logs) and leaves no record.
AdmissionCreate(q, r, ok) ==
    /\ UNCHANGED nonRunVars
    /\ q \in reqs
    /\ r \in FreeRunIds
    /\ reqs' = reqs \ {q}
    /\ IF ok
       THEN LET run == IF q.trigger = "cron"
                       THEN NewRun("cron", "queued", FALSE, 0)
                       ELSE NewRun(q.trigger, "running", TRUE, q.maxProducts)
            IN  /\ runDb' = [runDb EXCEPT ![r] = run]
                /\ runMem' = [runMem EXCEPT ![r] = run]
                /\ rpc' = [rpc EXCEPT ![r] = "start"]
                /\ resp' = [trigger |-> q.trigger,
                                       result |-> "started",
                                       activeAtRead |-> FALSE,
                                       activeAtSave |-> ActiveRuns # {},
                                       runId |-> r]
                /\ UNCHANGED faultsLeft
       ELSE /\ faultsLeft > 0
            /\ faultsLeft' = faultsLeft - 1
            /\ resp' = [trigger |-> q.trigger, result |-> "error",
                                   activeAtRead |-> FALSE,
                                   activeAtSave |-> ActiveRuns # {},
                                   runId |-> 0]
            /\ UNCHANGED <<runDb, runMem, rpc>>
    /\ UNCHANGED <<rloc, catalog, threw, ran, saveFailed>>

\* The agent command 'run_pipeline': a run is created in status 'running' and
\* saved without any read of the active runs; execution is deferred by
\* setTimeout(100).
AgentRunPipeline(r, ok) ==
    /\ UNCHANGED nonRunVars
    /\ r \in FreeRunIds
    /\ IF ok
       THEN LET run == NewRun("openclaw", "running", TRUE, 0)
            IN  /\ runDb' = [runDb EXCEPT ![r] = run]
                /\ runMem' = [runMem EXCEPT ![r] = run]
                /\ rpc' = [rpc EXCEPT ![r] = "timer"]
                /\ resp' = [trigger |-> "openclaw",
                                       result |-> "started",
                                       activeAtRead |-> ActiveRuns # {},
                                       activeAtSave |-> ActiveRuns # {},
                                       runId |-> r]
                /\ UNCHANGED faultsLeft
       ELSE /\ faultsLeft > 0
            /\ faultsLeft' = faultsLeft - 1
            /\ resp' = [trigger |-> "openclaw", result |-> "error",
                                   activeAtRead |-> ActiveRuns # {},
                                   activeAtSave |-> ActiveRuns # {},
                                   runId |-> 0]
            /\ UNCHANGED <<runDb, runMem, rpc>>
    /\ UNCHANGED <<rloc, catalog, reqs, threw, ran, saveFailed>>

(***************************************************************************)
(* executePipeline                                                         *)
(***************************************************************************)
\* number of the given calls that threw
Thrown(flags) == Cardinality({ i \in DOMAIN flags : ~flags[i] })

\* await run.save(): the persisted document becomes the in-memory one
Saved(r, run) == runDb' = [runDb EXCEPT ![r] = run]

\* an exception leaves the stage sequence for the catch block of executePipeline
ToCatch(r, run, byRunSave) ==
    /\ runMem' = [runMem EXCEPT ![r] = run]
    /\ rpc' = [rpc EXCEPT ![r] = "catch"]
    /\ saveFailed' = [saveFailed EXCEPT ![r] = @ \/ byRunSave]

\* setTimeout(async () => { require('../services/pipeline') ... }, 100) of the
\* agent command.  That module is not part of the sources: it may export
\* executePipeline, may be missing (require throws), or may export nothing.
AgentTimer(r, outcome) ==
    /\ UNCHANGED nonRunVars
    /\ rpc[r] = "timer"
    /\ outcome \in {"execute", "missing", "noexport"}
    /\ rpc' = [rpc EXCEPT ![r] = CASE outcome = "execute" -> "start"
                                   [] outcome = "missing" -> "handler"
                                   [] OTHER -> "idle"]
    /\ UNCHANGED <<runDb, runMem, rloc, catalog, reqs, resp, faultsLeft, threw, ran,
                   saveFailed>>

\* run.status = 'running'; run.startedAt = new Date(); logs.push; save
ExecStart(r, ok) ==
    /\ UNCHANGED nonRunVars
    /\ rpc[r] = "start"
    /\ ~ok => faultsLeft > 0
    /\ faultsLeft' = faultsLeft - Thrown(<<ok>>)
    /\ LET run == Log([runMem[r] EXCEPT !.status = "running", !.started = TRUE],
                      "info", "Pipeline started")
       IN  IF ok
           THEN /\ Saved(r, run)
                /\ runMem' = [runMem EXCEPT ![r] = run]
                /\ rpc' = [rpc EXCEPT ![r] = "s1"]
                /\ UNCHANGED saveFailed
           ELSE /\ ToCatch(r, run, TRUE)
                /\ UNCHANGED runDb
    /\ UNCHANGED <<rloc, catalog, reqs, resp, threw, ran>>

\* new Product({...}) of stage 1: margin, approval and listing fields default
Discovered(sc) ==
    Product(sc.costUsd, 0, sc.trendScore, sc.supplierUrl)

\* Stage 1: log, save, trendScout.scan() in try/catch, count, log, save, then
\* each discovered product saved in its own try/catch.
StageDiscovery(r, save1, scanOk, found, save2, productSaved) ==
    /\ UNCHANGED nonRunVars
    /\ rpc[r] = "s1"
    /\ Thrown(<<save1, scanOk, save2, productSaved>>) <= faultsLeft
    /\ Len(found) <= NumProducts - Len(catalog)
    /\ ~scanOk => found = <<>>
    /\ (~save1 => scanOk /\ found = <<>> /\ save2 /\ productSaved)
    /\ (~save2 \/ found = <<>>) => productSaved
    /\ faultsLeft' = faultsLeft - Thrown(<<save1, scanOk, save2, productSaved>>)
    /\ LET m1 == Log(runMem[r], "info", "Stage 1")
           m2 == IF scanOk THEN m1
                 ELSE PushError(m1, "trend_discovery", "timeout")
           m3 == Log([m2 EXCEPT !.productsDiscovered = Len(found)],
                     "info", "Stage 1 complete")
       IN  IF ~save1
           THEN /\ ToCatch(r, m1, TRUE)
                /\ UNCHANGED <<runDb, catalog, threw, ran>>
           ELSE /\ ran' = [ran EXCEPT ![r] = @ \cup {"trend_discovery"}]
                /\ threw' = [threw EXCEPT ![r] =
                                IF scanOk THEN @ ELSE @ \cup {"trend_discovery"}]
                /\ IF ~save2
                   THEN /\ Saved(r, m1)
                        /\ ToCatch(r, m3, TRUE)
                        /\ UNCHANGED catalog
                   ELSE /\ Saved(r, m3)
                        /\ runMem' = [runMem EXCEPT ![r] = m3]
                        /\ rpc' = [rpc EXCEPT ![r] = "s2"]
                        /\ catalog' = IF productSaved
                                      THEN catalog \o [i \in 1..Len(found) |->
                                                         Discovered(found[i])]
                                      ELSE catalog
                        /\ UNCHANGED saveFailed
    /\ UNCHANGED <<rloc, reqs, resp>>

\* Stages 2 and 3: log, save, the provider call in try/catch, log, save.
ProviderStage(r, from, to, stage, save1, callOk, save2) ==
    /\ UNCHANGED nonRunVars
    /\ rpc[r] = from
    /\ Thrown(<<save1, callOk, save2>>) <= faultsLeft
    /\ ~save1 => callOk /\ save2
    /\ faultsLeft' = faultsLeft - Thrown(<<save1, callOk, save2>>)
    /\ LET m1 == Log(runMem[r], "info", stage)
           m2 == IF callOk THEN m1 ELSE PushError(m1, stage, "timeout")
           m3 == Log(m2, "info", "complete")
       IN  IF ~save1
           THEN /\ ToCatch(r, m1, TRUE)
                /\ UNCHANGED <<runDb, threw, ran>>
           ELSE /\ ran' = [ran EXCEPT ![r] = @ \cup {stage}]
                /\ threw' = [threw EXCEPT ![r] =
                                IF callOk THEN @ ELSE @ \cup {stage}]
                /\ IF ~save2
                   THEN /\ Saved(r, m1)
                        /\ ToCatch(r, m3, TRUE)
                   ELSE /\ Saved(r, m3)
                        /\ runMem' = [runMem EXCEPT ![r] = m3]
                        /\ rpc' = [rpc EXCEPT ![r] = to]
                        /\ UNCHANGED saveFailed
    /\ UNCHANGED <<rloc, catalog, reqs, resp>>

\* Stage 2: supplierSourcer.autoSourceProducts(run.config?.maxProducts || 20)
StageSourcing(r, save1, callOk, save2) ==
    ProviderStage(r, "s2", "s3", "supplier_sourcing", save1, callOk, save2)

\* Stage 3: aiContent.bulkEnrich(run.config?.maxProducts || 15)
StageEnrichment(r, save1, callOk, save2) ==
    ProviderStage(r, "s3", "s4", "ai_content", save1, callOk, save2)

(***************************************************************************)
(* Stage 4: validation and scoring                                         *)
(***************************************************************************)
\* a candidates query that leaves out the filter on the rejection reason
isCandidateAnyReason(p) ==
    /\ p.approved = FALSE
    /\ p.isActive
    /\ p.costUsd > 0

\* Product.find({ 'pipeline.approved': false, 'pipeline.rejectionReason': '',
\*                isActive: true, costUsd: { $gt: 0 } })
isCandidate(p) ==
    /\ p.approved = FALSE
    /\ p.rejectionReason = NoReason
    /\ p.isActive
    /\ p.costUsd > 0

\* the documents a find returns: position in the collection and a copy of
\* the product as read
Docs(ids) == [i \in DOMAIN ids |-> [id |-> ids[i], doc |-> catalog[ids[i]]]]

findCandidates(limit) ==
    Docs(Take(SortedSeq({ i \in DOMAIN catalog : isCandidate(catalog[i]) }),
              limit))

\* a plausible slip: the margin bar of the approval rule made strict
validationDecisionStrict(doc) ==
    IF doc.costUsd <= 0
    THEN [approve |-> FALSE, reason |-> NoCostData, save |-> TRUE]
    ELSE IF doc.profitMarginPercent < 2000
    THEN [approve |-> FALSE,
          reason |-> LowMargin(toFixed1(doc.profitMarginPercent)),
          save |-> TRUE]
    ELSE IF ~doc.supplierUrl
    THEN [approve |-> FALSE, reason |-> NoSupplier, save |-> TRUE]
    ELSE IF doc.researchScore >= 30 \/ doc.profitMarginPercent > 3500
    THEN [approve |-> TRUE, reason |-> NoReason, save |-> TRUE]
    ELSE [approve |-> FALSE, reason |-> NoReason, save |-> FALSE]

\* the body of the loop over candidates: the checks in their order, what is
\* written to the product, and whether the product is saved
validationDecision(doc) ==
    IF doc.costUsd <= 0
    THEN [approve |-> FALSE, reason |-> NoCostData, save |-> TRUE]
    ELSE IF doc.profitMarginPercent < 2000
    THEN [approve |-> FALSE,
          reason |-> LowMargin(toFixed1(doc.profitMarginPercent)),
          save |-> TRUE]
    ELSE IF ~doc.supplierUrl
    THEN [approve |-> FALSE, reason |-> NoSupplier, save |-> TRUE]
    ELSE IF doc.researchScore >= 30 \/ doc.profitMarginPercent >= 3500
    THEN [approve |-> TRUE, reason |-> NoReason, save |-> TRUE]
    ELSE [approve |-> FALSE, reason |-> NoReason, save |-> FALSE]

\* log, save, then the candidates query (outside any stage try/catch)
ValidationBegin(r, save1, findOk) ==
    /\ UNCHANGED nonRunVars
    /\ rpc[r] = "s4"
    /\ Thrown(<<save1, findOk>>) <= faultsLeft
    /\ ~save1 => findOk
    /\ faultsLeft' = faultsLeft - Thrown(<<save1, findOk>>)
    /\ LET m1 == Log(runMem[r], "info", "Stage 4") IN
       IF ~save1
       THEN /\ ToCatch(r, m1, TRUE)
            /\ UNCHANGED <<runDb, rloc, threw, ran>>
       ELSE /\ Saved(r, m1)
            /\ ran' = [ran EXCEPT ![r] = @ \cup {"validation"}]
            /\ IF ~findOk
               THEN /\ ToCatch(r, m1, FALSE)
                    /\ threw' = [threw EXCEPT ![r] = @ \cup {"validation"}]
                    /\ UNCHANGED rloc
               ELSE /\ runMem' = [runMem EXCEPT ![r] = m1]
                    /\ rpc' = [rpc EXCEPT ![r] = "v"]
                    /\ rloc' = [rloc EXCEPT ![r].cands =
                                   findCandidates(OrDefault(m1.maxProducts,
                                                            DefaultValidateMax)),
                                            ![r].idx = 1,
                                            ![r].validated = 0,
                                            ![r].rejected = 0]
                    /\ UNCHANGED <<threw, saveFailed>>
    /\ UNCHANGED <<catalog, reqs, resp>>

\* one iteration of `for (const product of candidates)`
ValidateOne(r, ok) ==
    /\ UNCHANGED nonRunVars
    /\ rpc[r] = "v"
    /\ rloc[r].idx <= Len(rloc[r].cands)
    /\ LET c == rloc[r].cands[rloc[r].idx]
           d == validationDecision(c.doc)
       IN  /\ ~ok => d.save /\ faultsLeft > 0
           /\ faultsLeft' = faultsLeft - Thrown(<<ok>>)
           /\ IF ~ok
              THEN /\ ToCatch(r, runMem[r], FALSE)
                   /\ threw' = [threw EXCEPT ![r] = @ \cup {"validation"}]
                   /\ UNCHANGED <<catalog, rloc>>
              ELSE /\ catalog' =
                        IF ~d.save THEN catalog
                        ELSE IF d.approve
                        THEN [catalog EXCEPT ![c.id].approved = TRUE,
                                             ![c.id].approvedAt = TRUE,
                                             ![c.id].runId = r]
                        ELSE [catalog EXCEPT ![c.id].rejectionReason = d.reason]
                   /\ rloc' = [rloc EXCEPT
                                  ![r].idx = @ + 1,
                                  ![r].validated = IF d.approve THEN @ + 1 ELSE @,
                                  ![r].rejected = IF d.approve THEN @ ELSE @ + 1]
                   /\ UNCHANGED <<runMem, rpc, threw, saveFailed>>
    /\ UNCHANGED <<runDb, reqs, resp, ran>>

\* after the loop: the two counters, log, save
ValidationEnd(r, ok) ==
    /\ UNCHANGED nonRunVars
    /\ rpc[r] = "v"
    /\ rloc[r].idx > Len(rloc[r].cands)
    /\ ~ok => faultsLeft > 0
    /\ faultsLeft' = faultsLeft - Thrown(<<ok>>)
    /\ LET m == Log([runMem[r] EXCEPT
                        !.productsValidated = rloc[r].validated,
                        !.productsRejected = rloc[r].rejected],
                    "info", "Stage 4 complete")
       IN  IF ok
           THEN /\ Saved(r, m)
                /\ runMem' = [runMem EXCEPT ![r] = m]
                /\ rpc' = [rpc EXCEPT ![r] = "s5"]
                /\ UNCHANGED saveFailed
           ELSE /\ ToCatch(r, m, TRUE)
                /\ UNCHANGED runDb
    /\ UNCHANGED <<rloc, catalog, reqs, resp, threw, ran>>

(***************************************************************************)
(* Stage 5: listing                                                        *)
(***************************************************************************)
\* Product.find({ 'pipeline.approved': true,
\*                woocommerceProductId: { $exists: false }, isActive: true })
isListable(p) ==
    /\ p.approved
    /\ p.woocommerceProductId = "absent"
    /\ p.isActive

findApproved(limit) ==
    Docs(Take(SortedSeq({ i \in DOMAIN catalog : isListable(catalog[i]) }),
              limit))

ListingBegin(r, save1, findOk) ==
    /\ UNCHANGED nonRunVars
    /\ rpc[r] = "s5"
    /\ Thrown(<<save1, findOk>>) <= faultsLeft
    /\ ~save1 => findOk
    /\ faultsLeft' = faultsLeft - Thrown(<<save1, findOk>>)
    /\ LET m1 == Log(runMem[r], "info", "Stage 5") IN
       IF ~save1
       THEN /\ ToCatch(r, m1, TRUE)
            /\ UNCHANGED <<runDb, rloc, threw, ran>>
       ELSE /\ Saved(r, m1)
            /\ ran' = [ran EXCEPT ![r] = @ \cup {"woocommerce_listing"}]
            /\ IF ~findOk
               THEN /\ ToCatch(r, m1, FALSE)
                    /\ threw' = [threw EXCEPT ![r] =
                                    @ \cup {"woocommerce_listing"}]
                    /\ UNCHANGED rloc
               ELSE /\ runMem' = [runMem EXCEPT ![r] = m1]
                    /\ rpc' = [rpc EXCEPT ![r] = "l"]
                    /\ rloc' = [rloc EXCEPT ![r].toList =
                                   findApproved(OrDefault(m1.maxProducts,
                                                          DefaultListMax)),
                                            ![r].lidx = 1,
                                            ![r].listed = 0]
                    /\ UNCHANGED <<threw, saveFailed>>
    /\ UNCHANGED <<catalog, reqs, resp>>

\* one iteration of `for (const product of approvedProducts)`: createProduct
\* and product.save() share one try/catch, which records the error
ListOne(r, outcome) ==
    /\ UNCHANGED nonRunVars
    /\ rpc[r] = "l"
    /\ rloc[r].lidx <= Len(rloc[r].toList)
    /\ outcome \in {"listed", "create_throws", "save_throws"}
    /\ outcome # "listed" => faultsLeft > 0
    /\ faultsLeft' = faultsLeft - (IF outcome = "listed" THEN 0 ELSE 1)
    /\ LET c == rloc[r].toList[rloc[r].lidx] IN
       IF outcome = "listed"
       THEN /\ catalog' = [catalog EXCEPT ![c.id].woocommerceProductId = "set"]
            /\ rloc' = [rloc EXCEPT ![r].lidx = @ + 1, ![r].listed = @ + 1]
            /\ UNCHANGED <<runMem, threw>>
       ELSE /\ runMem' = [runMem EXCEPT ![r] =
                            PushError(@, "woocommerce_listing", "timeout")]
            /\ threw' = [threw EXCEPT ![r] = @ \cup {"woocommerce_listing"}]
            /\ rloc' = [rloc EXCEPT ![r].lidx = @ + 1]
            /\ UNCHANGED catalog
    /\ UNCHANGED <<runDb, rpc, reqs, resp, ran, saveFailed>>

ListingEnd(r, ok) ==
    /\ UNCHANGED nonRunVars
    /\ rpc[r] = "l"
    /\ rloc[r].lidx > Len(rloc[r].toList)
    /\ ~ok => faultsLeft > 0
    /\ faultsLeft' = faultsLeft - Thrown(<<ok>>)
    /\ LET m == Log([runMem[r] EXCEPT !.productsListed = rloc[r].listed],
                    "info", "Stage 5 complete")
       IN  IF ok
           THEN /\ Saved(r, m)
                /\ runMem' = [runMem EXCEPT ![r] = m]
                /\ rpc' = [rpc EXCEPT ![r] = "s6"]
                /\ UNCHANGED saveFailed
           ELSE /\ ToCatch(r, m, TRUE)
                /\ UNCHANGED runDb
    /\ UNCHANGED <<rloc, catalog, reqs, resp, threw, ran>>

(***************************************************************************)
(* Stage 6, completion, auto-list sweep, notification, failure handler     *)
(***************************************************************************)
\* Stage 6: log, save, airtableSync.bulkSyncProducts(50) in try/catch; then
\* COMPLETE: status, completedAt, durationMs, log, save.
StageSyncAndComplete(r, save1, callOk, save2) ==
    /\ UNCHANGED nonRunVars
    /\ rpc[r] = "s6"
    /\ Thrown(<<save1, callOk, save2>>) <= faultsLeft
    /\ ~save1 => callOk /\ save2
    /\ faultsLeft' = faultsLeft - Thrown(<<save1, callOk, save2>>)
    /\ LET m1 == Log(runMem[r], "info", "Stage 6")
           m2 == IF callOk THEN m1 ELSE PushError(m1, "airtable_sync", "timeout")
           m3 == Log([m2 EXCEPT !.status = "completed", !.completed = TRUE,
                                !.durationSet = TRUE],
                     "info", "Pipeline completed")
       IN  IF ~save1
           THEN /\ ToCatch(r, m1, TRUE)
                /\ UNCHANGED <<runDb, threw, ran>>
           ELSE /\ ran' = [ran EXCEPT ![r] = @ \cup {"airtable_sync"}]
                /\ threw' = [threw EXCEPT ![r] =
                                IF callOk THEN @ ELSE @ \cup {"airtable_sync"}]
                /\ IF ~save2
                   THEN /\ Saved(r, m1)
                        /\ ToCatch(r, m3, TRUE)
                   ELSE /\ Saved(r, m3)
                        /\ runMem' = [runMem EXCEPT ![r] = m3]
                        /\ rpc' = [rpc EXCEPT ![r] = "autolist"]
                        /\ UNCHANGED saveFailed
    /\ UNCHANGED <<rloc, catalog, reqs, resp>>

\* the sweep's query: active, priced, status missing / '' / draft /
\* discovered / analyzed
isUnlisted(p) ==
    /\ p.isActive
    /\ p.sellingPriceAud > 0
    /\ p.status \in {"", "draft", "discovered", "analyzed"}

\* Math.round(p.sellingPriceAud * 1.35), a whole-dollar amount, in cents
comparePrice(selling) == ((135 * selling + 5000) \div 10000) * 100

\* p.status = 'listed'; p.shopifyStatus = 'active'; comparePriceAud if absent:
\* the document object after the loop body's assignments
autoListed(p) ==
    [p EXCEPT !.status = "listed",
              !.comparePriceAud = IF @ = 0 /\ p.sellingPriceAud # 0
                                  THEN comparePrice(p.sellingPriceAud) ELSE @]

\* await p.save(): Mongoose writes the schema's paths.  productSchema
\* declares no `status` (nor `shopifyStatus`) path and is strict, so the
\* value assigned to p.status stays on the object and the stored document
\* keeps the status it had.
savedProduct(before, doc) == [doc EXCEPT !.status = before.status]

\* the documents the sweep's query returns, in natural order
unlisted(cat) == SortedSeq({ i \in DOMAIN cat : isUnlisted(cat[i]) })

\* the collection after the sweep's loop has saved its first n documents
swept(cat, n) ==
    [i \in DOMAIN cat |->
        IF \E k \in 1..n : unlisted(cat)[k] = i
        THEN savedProduct(cat[i], autoListed(cat[i])) ELSE cat[i]]

\* The auto-list sweep, in one try/catch: find, then per product set status
\* and save, then the count on the run and run.save().  `done` products are
\* saved before a call throws (done = all of them when none throws).
AutoListSweep(r, findOk, done, runSave) ==
    /\ UNCHANGED nonRunVars
    /\ rpc[r] = "autolist"
    /\ LET ids == unlisted(catalog)
           all == done = Len(ids)
       IN  /\ done \in 0..Len(ids)
           /\ ~findOk => done = 0
           /\ (~findOk \/ ~all) => runSave
           /\ Thrown(<<findOk, all, runSave>>) <= faultsLeft
           /\ faultsLeft' = faultsLeft - Thrown(<<findOk, all, runSave>>)
           /\ catalog' = IF findOk THEN swept(catalog, done) ELSE catalog
           /\ IF findOk /\ all
              THEN LET m == [runMem[r] EXCEPT !.productsAutoListed = done]
                   IN  /\ runMem' = [runMem EXCEPT ![r] = m]
                       /\ IF runSave THEN Saved(r, m) ELSE UNCHANGED runDb
              ELSE UNCHANGED <<runMem, runDb>>
    /\ rpc' = [rpc EXCEPT ![r] = "notify"]
    /\ UNCHANGED <<rloc, reqs, resp, threw, ran, saveFailed>>

\* clawdbotBridge.notify('pipeline_complete', ...) in try/catch; then
\* executePipeline returns
NotifyComplete(r, ok) ==
    /\ UNCHANGED nonRunVars
    /\ rpc[r] = "notify"
    /\ ~ok => faultsLeft > 0
    /\ faultsLeft' = faultsLeft - Thrown(<<ok>>)
    /\ rpc' = [rpc EXCEPT ![r] = "done"]
    /\ UNCHANGED <<runDb, runMem, rloc, catalog, reqs, resp, threw, ran,
                   saveFailed>>

\* a failure handler that records the failure and returns normally
CatchBlockSwallowing(r, ok) ==
    /\ UNCHANGED nonRunVars
    /\ rpc[r] = "catch"
    /\ ~ok => faultsLeft > 0
    /\ faultsLeft' = faultsLeft - Thrown(<<ok>>)
    /\ LET m == Log([runMem[r] EXCEPT !.status = "failed", !.completed = TRUE,
                                      !.durationSet = TRUE],
                    "error", "Pipeline failed")
       IN  /\ runMem' = [runMem EXCEPT ![r] = m]
           /\ IF ok THEN Saved(r, m) ELSE UNCHANGED runDb
           /\ saveFailed' = [saveFailed EXCEPT ![r] = @ \/ ~ok]
    /\ rpc' = [rpc EXCEPT ![r] = "done"]
    /\ UNCHANGED <<rloc, catalog, reqs, resp, threw, ran>>

\* catch (err) { status = 'failed'; completedAt; durationMs; logs.push(error);
\* await run.save(); throw err }.  The exception reaches the caller either
\* way: the route's .catch and the cron job log it, the agent command's timer
\* callback handles it.
CatchBlock(r, ok) ==
    /\ UNCHANGED nonRunVars
    /\ rpc[r] = "catch"
    /\ ~ok => faultsLeft > 0
    /\ faultsLeft' = faultsLeft - Thrown(<<ok>>)
    /\ LET m == Log([runMem[r] EXCEPT !.status = "failed", !.completed = TRUE,
                                      !.durationSet = TRUE],
                    "error", "Pipeline failed")
       IN  /\ runMem' = [runMem EXCEPT ![r] = m]
           /\ IF ok THEN Saved(r, m) ELSE UNCHANGED runDb
           /\ saveFailed' = [saveFailed EXCEPT ![r] = @ \/ ~ok]
    /\ rpc' = [rpc EXCEPT ![r] = IF runMem[r].triggeredBy = "openclaw"
                                 THEN "handler" ELSE "thrown"]
    /\ UNCHANGED <<rloc, catalog, reqs, resp, threw, ran>>

\* the agent command's catch: run.status = 'failed'; run.error = err.message;
\* await run.save()  (a throw here is an unhandled rejection of the timer)
AgentHandler(r, ok) ==
    /\ UNCHANGED nonRunVars
    /\ rpc[r] = "handler"
    /\ ~ok => faultsLeft > 0
    /\ faultsLeft' = faultsLeft - Thrown(<<ok>>)
    /\ LET m == [runMem[r] EXCEPT !.status = "failed"]
       IN  /\ runMem' = [runMem EXCEPT ![r] = m]
           /\ IF ok THEN Saved(r, m) ELSE UNCHANGED runDb
           /\ saveFailed' = [saveFailed EXCEPT ![r] = @ \/ ~ok]
    /\ rpc' = [rpc EXCEPT ![r] = "thrown"]
    /\ UNCHANGED <<rloc, catalog, reqs, resp, threw, ran>>

\* every step of one run's execution
ExecutePipeline(r) ==
    \/ \E ok \in BOOLEAN : ExecStart(r, ok)
    \/ \E save1, scanOk, save2, productSaved \in BOOLEAN :
       \E found \in {<<>>} \cup { <<sc>> : sc \in ScanSamples } :
          StageDiscovery(r, save1, scanOk, found, save2, productSaved)
    \/ \E save1, callOk, save2 \in BOOLEAN :
          StageSourcing(r, save1, callOk, save2)
    \/ \E save1, callOk, save2 \in BOOLEAN :
          StageEnrichment(r, save1, callOk, save2)
    \/ \E save1, findOk \in BOOLEAN : ValidationBegin(r, save1, findOk)
    \/ \E ok \in BOOLEAN : ValidateOne(r, ok)
    \/ \E ok \in BOOLEAN : ValidationEnd(r, ok)
    \/ \E save1, findOk \in BOOLEAN : ListingBegin(r, save1, findOk)
    \/ \E outcome \in {"listed", "create_throws", "save_throws"} :
          ListOne(r, outcome)
    \/ \E ok \in BOOLEAN : ListingEnd(r, ok)
    \/ \E save1, callOk, save2 \in BOOLEAN :
          StageSyncAndComplete(r, save1, callOk, save2)
    \/ \E findOk, runSave \in BOOLEAN : \E done \in 0..NumProducts :
          AutoListSweep(r, findOk, done, runSave)
    \/ \E ok \in BOOLEAN : NotifyComplete(r, ok)
    \/ \E ok \in BOOLEAN : CatchBlock(r, ok)

RunIdle ==
    /\ runDb = [r \in RunIds |-> NoRun]
    /\ runMem = [r \in RunIds |-> NoRun]
    /\ rpc = [r \in RunIds |-> "none"]
    /\ rloc = [r \in RunIds |-> NoLocals]
    /\ catalog = <<>>
    /\ reqs = {}
    /\ resp = NoResponse
    /\ threw = [r \in RunIds |-> {}]
    /\ ran = [r \in RunIds |-> {}]
    /\ saveFailed = [r \in RunIds |-> FALSE]

\* a process with no run yet and a catalog of up to NumProducts products
PipelineInit ==
    /\ runDb = [r \in RunIds |-> NoRun]
    /\ runMem = [r \in RunIds |-> NoRun]
    /\ rpc = [r \in RunIds |-> "none"]
    /\ rloc = [r \in RunIds |-> NoLocals]
    /\ catalog \in UNION { [1..n -> ProductSamples] : n \in 0..NumProducts }
    /\ reqs = {}
    /\ resp = NoResponse
    /\ threw = [r \in RunIds |-> {}]
    /\ ran = [r \in RunIds |-> {}]
    /\ saveFailed = [r \in RunIds |-> FALSE]

\* the first start request of the process, by the manual route or by the
\* webhook with { maxProducts: 1 }
FirstRequest ==
    /\ reqs = {}
    /\ \A r \in RunIds : rpc[r] = "none"
    /\ \/ AdmissionCheck("manual", 0)
       \/ \E n \in {1} : AdmissionCheck("webhook", OrDefault(n, WebhookDefaultMax))

\* one run from admission to its end
PipelineNext ==
    \/ FirstRequest
    \/ \E q \in reqs : AdmissionCreate(q, 1, TRUE)
    \/ ExecutePipeline(1)

\* a process with no run yet, one candidate and one approved product
AdmitInit ==
    /\ runDb = [r \in RunIds |-> NoRun]
    /\ runMem = [r \in RunIds |-> NoRun]
    /\ rpc = [r \in RunIds |-> "none"]
    /\ rloc = [r \in RunIds |-> NoLocals]
    /\ catalog = << Product(800, 3500, 29, TRUE),
                    [Product(800, 3500, 29, TRUE) EXCEPT
                         !.approved = TRUE, !.approvedAt = TRUE,
                         !.woocommerceProductId = "absent",
                         !.sellingPriceAud = 2000] >>
    /\ reqs = {}
    /\ resp = NoResponse
    /\ threw = [r \in RunIds |-> {}]
    /\ ran = [r \in RunIds |-> {}]
    /\ saveFailed = [r \in RunIds |-> FALSE]

\* a start request arrives while no other request is between its read and
\* its create (requests handled one at a time)
SerialRequest ==
    /\ reqs = {}
    /\ \/ \E trigger \in {"manual", "cron"} : AdmissionCheck(trigger, 0)
       \/ AdmissionCheck("webhook", OrDefault(0, WebhookDefaultMax))
       \/ \E r \in RunIds : \E ok \in BOOLEAN : AgentRunPipeline(r, ok)

\* start requests through every trigger, one at a time, and the runs they
\* start
AdmitNext ==
    \/ SerialRequest
    \/ \E q \in reqs : \E r \in RunIds : \E ok \in BOOLEAN :
          AdmissionCreate(q, r, ok)
    \/ \E r \in RunIds :
          \E outcome \in {"execute", "missing", "noexport"} :
             AgentTimer(r, outcome)
    \/ \E r \in RunIds : \E ok \in BOOLEAN : AgentHandler(r, ok)
    \/ \E r \in RunIds : ExecutePipeline(r)

\* a start request arrives while no request is pending and no run is
\* executing: at the manual route, or at the webhook with { maxProducts: 1 }
RequestAtRest ==
    /\ reqs = {}
    /\ \A r \in RunIds : rpc[r] \in {"none", "done", "thrown"}
    /\ \/ AdmissionCheck("manual", 0)
       \/ \E n \in {1} : AdmissionCheck("webhook", OrDefault(n, WebhookDefaultMax))

\* runs one after the other over the same catalog
RerunNext ==
    \/ RequestAtRest
    \/ \E q \in reqs : \E r \in RunIds : AdmissionCreate(q, r, TRUE)
    \/ \E r \in RunIds : ExecutePipeline(r)

\* the two routes whose requests race
Racers == {"manual", "webhook"}

\* a start request arrives at the manual route or at the webhook while
\* another request may be between its read and its create (the handlers are
\* async: each awaits findOne, then awaits save)
RacingRequest ==
    /\ Cardinality(reqs) + Cardinality({ r \in RunIds : rpc[r] # "none" })
          < Cardinality(Racers)
    /\ \E trigger \in Racers :
          /\ \A q \in reqs : q.trigger # trigger
          /\ AdmissionCheck(trigger, IF trigger = "webhook"
                                     THEN OrDefault(0, WebhookDefaultMax)
                                     ELSE 0)

\* start requests of the manual route and the webhook, interleaved at their
\* awaits, and the runs they start
RaceNext ==
    \/ RacingRequest
    \/ \E q \in reqs : \E r \in RunIds : \E ok \in BOOLEAN :
          AdmissionCreate(q, r, ok)
    \/ \E r \in RunIds : ExecutePipeline(r)

(***************************************************************************)
(* SocialPoster: the per-channel cooldown gate and postProductToAll        *)
(***************************************************************************)
Channels == {"instagram", "facebook", "pinterest"}

\* 2 * 60 * 60 * 1000 ms, in units of 30 minutes
minPostIntervalMs == 4
\* 30 * 60 * 1000 ms, in units of 30 minutes
postDelayMs == 1

\* bound: how far the clock runs
MaxTicks == 4
\* bound: postProductToAll calls followed
MaxPosts == 2
\* bound: products handed to onProductLive
MaxQueued == 3

PostIds == 1..MaxPosts

NoPost ==
    [kind |-> "none", pc |-> "none", at |-> 0,
     res |-> [c \in Channels |-> "none"]]

\* canPost(platform), over a given lastPostTime object
canPostWith(times, platform) == now - times[platform] >= minPostIntervalMs

canPost(platform) == canPostWith(lastPostTime, platform)

\* a markPosted that stamps every channel
markPostedAll(times, platform) == [c \in Channels |-> now]

\* markPosted(platform)
markPosted(times, platform) == [times EXCEPT ![platform] = now]

\* forcePostProduct with the reset left out
keptLastPostTime == lastPostTime

\* socialPoster.lastPostTime = {}: every read gives (undefined || 0)
clearedLastPostTime == [c \in Channels |-> 0]

\* postToInstagram / postToFacebook / postToPinterest up to the provider
\* call: not_configured, then the gate, then (after generateSocialCopy, which
\* touches no state) no_image for the two channels that need an image;
\* "pending" is a provider call under way
channelStart(times, platform, image) ==
    IF ~enabled[platform] THEN "not_configured"
    ELSE IF ~canPostWith(times, platform) THEN "rate_limited"
    ELSE IF ~image /\ platform \in {"instagram", "pinterest"} THEN "no_image"
    ELSE "pending"

\* postProductToAll(product): the three channel functions are called one
\* after the other, each running to its first await, before anything else
\* can run
postProductToAll(kind, image, times) ==
    [kind |-> kind, pc |-> "flight", at |-> now,
     res |-> [c \in Channels |-> channelStart(times, c, image)]]

FreePosts ==
    LET unused == { t \in PostIds : post[t].pc = "none" }
    IN  { t \in unused : \A u \in unused : t <= u }

successCount(p) == Cardinality({ c \in Channels : p.res[c] = "success" })

\* POST /admin/marketing/post-all with a product object in the body
PostAllRoute(image) ==
    /\ UNCHANGED nonMktVars
    /\ \E t \in FreePosts :
          post' = [post EXCEPT ![t] =
                      postProductToAll("route", image, lastPostTime)]
    /\ UNCHANGED <<now, enabled, lastPostTime, queueVars, stats, contentVars,
                   faultsLeft>>

\* POST /admin/marketing/post-now -> forcePostProduct(product)
ForcePostProduct(image) ==
    /\ UNCHANGED nonMktVars
    /\ lastPostTime' = clearedLastPostTime
    /\ \E t \in FreePosts :
          post' = [post EXCEPT ![t] =
                      postProductToAll("forced", image, lastPostTime')]
    /\ UNCHANGED <<now, enabled, queueVars, stats, contentVars, faultsLeft>>

\* the provider call of one channel returns: markPosted on success, the
\* error's message as the reason otherwise
ChannelSettle(t, c, ok) ==
    /\ UNCHANGED nonMktVars
    /\ post[t].pc = "flight"
    /\ post[t].res[c] = "pending"
    /\ IF ok
       THEN /\ lastPostTime' = markPosted(lastPostTime, c)
            /\ post' = [post EXCEPT ![t].res[c] = "success"]
       ELSE /\ post' = [post EXCEPT ![t].res[c] = "error"]
            /\ UNCHANGED lastPostTime
    /\ UNCHANGED <<now, enabled, queueVars, stats, contentVars, faultsLeft>>

\* a consumer whose loop is left by the exception of a post that reached no
\* channel (a loop without its try/catch): the flag stays set
PostFinishEscaping(t) ==
    /\ UNCHANGED nonMktVars
    /\ post[t].pc = "flight"
    /\ \A c \in Channels : post[t].res[c] # "pending"
    /\ post' = [post EXCEPT ![t].pc = "done"]
    /\ stats' = IF post[t].kind = "route" THEN stats
                ELSE [stats EXCEPT !.socialPostsSent = @ + successCount(post[t])]
    /\ IF post[t].kind = "queue"
       THEN IF successCount(post[t]) = 0
            THEN /\ qpc' = "idle"
                 /\ UNCHANGED <<isProcessing, qwake>>
            ELSE IF Len(pendingProducts) > 0
            THEN /\ qpc' = "sleeping"
                 /\ qwake' = now + postDelayMs
                 /\ UNCHANGED isProcessing
            ELSE /\ qpc' = "idle"
                 /\ isProcessing' = FALSE
                 /\ UNCHANGED qwake
       ELSE UNCHANGED <<isProcessing, qpc, qwake>>
    /\ UNCHANGED <<now, enabled, lastPostTime, pendingProducts, contentVars,
                   faultsLeft>>

\* a consumer that handles one product per call (an `if` where the loop has
\* its `while`)
PostFinishOnce(t) ==
    /\ UNCHANGED nonMktVars
    /\ post[t].pc = "flight"
    /\ \A c \in Channels : post[t].res[c] # "pending"
    /\ post' = [post EXCEPT ![t].pc = "done"]
    /\ stats' = IF post[t].kind = "route" THEN stats
                ELSE [stats EXCEPT !.socialPostsSent = @ + successCount(post[t])]
    /\ IF post[t].kind = "queue"
       THEN /\ qpc' = "idle"
            /\ isProcessing' = FALSE
            /\ UNCHANGED qwake
       ELSE UNCHANGED <<isProcessing, qpc, qwake>>
    /\ UNCHANGED <<now, enabled, lastPostTime, pendingProducts, contentVars,
                   faultsLeft>>

\* Promise.allSettled resolves, the summary is reported and returned to the
\* caller (the record keeps it): the route answers; forcePostProduct and the
\* queue consumer add the success count; the consumer then sleeps
\* postDelayMs if more is queued, or leaves its loop
PostFinish(t) ==
    /\ UNCHANGED nonMktVars
    /\ post[t].pc = "flight"
    /\ \A c \in Channels : post[t].res[c] # "pending"
    /\ post' = [post EXCEPT ![t].pc = "done"]
    /\ stats' = IF post[t].kind = "route" THEN stats
                ELSE [stats EXCEPT !.socialPostsSent = @ + successCount(post[t])]
    /\ IF post[t].kind = "queue"
       THEN IF Len(pendingProducts) > 0
            THEN /\ qpc' = "sleeping"
                 /\ qwake' = now + postDelayMs
                 /\ UNCHANGED isProcessing
            ELSE /\ qpc' = "idle"
                 /\ isProcessing' = FALSE
                 /\ UNCHANGED qwake
       ELSE UNCHANGED <<isProcessing, qpc, qwake>>
    /\ UNCHANGED <<now, enabled, lastPostTime, pendingProducts, contentVars,
                   faultsLeft>>

\* a queue whose guards let a consumer start whenever something is queued
startsConsumerAlways(processing, queue) == Len(queue) # 0

\* queueSocialPost's `if (!this.isProcessing) this.processSocialQueue()` and
\* processSocialQueue's `if (this.isProcessing || length === 0) return`:
\* whether a consumer loop starts
startsConsumer(processing, queue) ==
    ~processing /\ ~(processing \/ Len(queue) = 0)

\* onProductLive(product), from queueSocialPost on (the Klaviyo calls before
\* it are awaited and caught, and touch only the email counter, which stats
\* does not carry here): push, and if the consumer is not running
\* processSocialQueue starts: it sets isProcessing, shifts the head and calls
\* postProductToAll; then productsMarketed++
OnProductLive(image) ==
    /\ UNCHANGED nonMktVars
    /\ stats.productsMarketed < MaxQueued
    /\ LET queue == Append(pendingProducts, image)
           counted == [stats EXCEPT !.productsMarketed = @ + 1]
       IN  /\ stats' = counted
           /\ IF startsConsumer(isProcessing, queue)
              THEN /\ isProcessing' = TRUE
                   /\ qpc' = "posting"
                   /\ pendingProducts' = Tail(queue)
                   /\ \E t \in FreePosts :
                         post' = [post EXCEPT ![t] =
                            postProductToAll("queue", Head(queue), lastPostTime)]
              ELSE /\ pendingProducts' = queue
                   /\ UNCHANGED <<isProcessing, qpc, post>>
    /\ UNCHANGED <<now, enabled, lastPostTime, qwake, contentVars, faultsLeft>>

\* a consumer that puts a product back at the end of the queue when a channel
\* refuses it inside its cooldown
ConsumerWakeRequeue ==
    /\ UNCHANGED nonMktVars
    /\ qpc = "sleeping"
    /\ now >= qwake
    /\ IF Len(pendingProducts) > 0
       THEN /\ qpc' = "posting"
            /\ \E t \in FreePosts :
                  /\ post' = [post EXCEPT ![t] =
                       postProductToAll("queue", Head(pendingProducts),
                                        lastPostTime)]
                  /\ pendingProducts' =
                       IF \E c \in Channels : post'[t].res[c] = "rate_limited"
                       THEN Append(Tail(pendingProducts), Head(pendingProducts))
                       ELSE Tail(pendingProducts)
            /\ UNCHANGED isProcessing
       ELSE /\ qpc' = "idle"
            /\ isProcessing' = FALSE
            /\ UNCHANGED <<pendingProducts, post>>
    /\ UNCHANGED <<now, enabled, lastPostTime, qwake, stats, contentVars,
                   faultsLeft>>

\* the consumer's timer fires: the loop shifts the next product and calls
\* postProductToAll, or ends when nothing is queued
ConsumerWake ==
    /\ UNCHANGED nonMktVars
    /\ qpc = "sleeping"
    /\ now >= qwake
    /\ IF Len(pendingProducts) > 0
       THEN /\ qpc' = "posting"
            /\ pendingProducts' = Tail(pendingProducts)
            /\ \E t \in FreePosts :
                  post' = [post EXCEPT ![t] =
                     postProductToAll("queue", Head(pendingProducts), lastPostTime)]
            /\ UNCHANGED isProcessing
       ELSE /\ qpc' = "idle"
            /\ isProcessing' = FALSE
            /\ UNCHANGED <<pendingProducts, post>>
    /\ UNCHANGED <<now, enabled, lastPostTime, qwake, stats, contentVars,
                   faultsLeft>>

\* the clock advances
Tick ==
    /\ UNCHANGED nonMktVars
    /\ now < minPostIntervalMs + MaxTicks
    /\ now' = now + 1
    /\ UNCHANGED <<enabled, lastPostTime, post, queueVars, stats, contentVars,
                   faultsLeft>>

\* the delay of the consumer's setTimeout elapses
SleepElapses ==
    /\ UNCHANGED nonMktVars
    /\ qpc = "sleeping"
    /\ now < qwake
    /\ now' = qwake
    /\ UNCHANGED <<enabled, lastPostTime, post, queueVars, stats, contentVars,
                   faultsLeft>>

\* a product goes live while the posts of all earlier ones can be followed
ProductLive(image) ==
    /\ stats.productsMarketed < MaxPosts
    /\ OnProductLive(image)

\* one channel's provider call returns or throws
ChannelReturns(t, c) == \E ok \in BOOLEAN : ChannelSettle(t, c, ok)

\* the queue and its consumer when every provider call returns and every
\* timer fires
DrainNext ==
    \/ \E image \in BOOLEAN : ProductLive(image)
    \/ \E t \in PostIds : \E c \in Channels : ChannelReturns(t, c)
    \/ \E t \in PostIds : PostFinish(t)
    \/ SleepElapses
    \/ ConsumerWake
    \/ Tick

\* the event loop runs every continuation that is ready and every timer that
\* is due; provider calls return or throw
DrainFairness ==
    /\ \A t \in PostIds : \A c \in Channels : WF_vars(ChannelReturns(t, c))
    /\ \A t \in PostIds : WF_vars(PostFinish(t))
    /\ WF_vars(SleepElapses)
    /\ WF_vars(ConsumerWake)

(***************************************************************************)
(* MarketingOrchestrator: approveContent, rejectContent, regenerateContent *)
(***************************************************************************)
\* bound: MarketingContent documents
MaxContent == 3
\* bound: approve / reject / regenerate calls followed
MaxOps == 2

ContentIds == 1..MaxContent

OpIds == 1..MaxOps

Statuses ==
    {"generating", "pending_approval", "approved", "rejected", "posted",
     "failed"}

NoContent == [status |-> "none"]

\* a MarketingContent document as its life so far has left it
Content(status) ==
    [status |-> status,
     approvedAt |-> status \in {"approved", "posted"},
     postedAt |-> status = "posted",
     postResults |-> [set |-> status = "posted", ok |-> {},
                      res |-> [c \in Channels |->
                                 IF status = "posted" THEN "failed"
                                 ELSE "none"]],
     rejectedAt |-> status = "rejected",
     rejectionReason |-> IF status = "rejected" THEN "reason" ELSE "",
     regenerationCount |-> 0,
     regeneratedFrom |-> 0,
     productId |-> 1]

NoTask ==
    [op |-> "none", pc |-> "none", id |-> 0, old |-> "none", reason |-> "",
     count |-> 0, new |-> 0, ok |-> {},
     res |-> [c \in Channels |-> "none"], err |-> ""]

FreeContentIds ==
    LET unused == { n \in ContentIds : content[n] = NoContent }
    IN  { n \in unused : \A m \in unused : n <= m }

\* approveContent without its status check
approveGuardOff(status) == FALSE

\* if (content.status !== 'pending_approval') throw ...
approveGuard(status) == status # "pending_approval"

\* the call goes to its catch block with err
Fail(t, pc, err) == [ctask EXCEPT ![t].pc = pc, ![t].err = err]

\* the call returns ("done") or throws ("error"): its locals are gone
End(t, pc, err) ==
    [ctask EXCEPT ![t] = [NoTask EXCEPT !.op = ctask[t].op, !.id = ctask[t].id,
                                        !.old = ctask[t].old, !.pc = pc,
                                        !.err = err]]

\* approveContent(contentId): findById and the two checks that follow it
ApproveFind(t, id) ==
    /\ UNCHANGED nonMktVars
    /\ ctask[t].pc = "none"
    /\ LET call == [NoTask EXCEPT !.op = "approve", !.id = id,
                                  !.old = content[id].status]
       IN  ctask' = [ctask EXCEPT ![t] =
              IF content[id] = NoContent
              THEN [call EXCEPT !.pc = "error", !.err = "Content not found"]
              ELSE IF approveGuard(content[id].status)
              THEN [call EXCEPT !.pc = "error", !.err = "Cannot approve content"]
              ELSE [call EXCEPT !.pc = "save"]]
    /\ UNCHANGED <<posterVars, queueVars, stats, content, productExists, isEnabled,
                   faultsLeft>>

\* status = 'approved'; approvedAt; await content.save(); contentApproved++
ApproveSave(t, ok) ==
    /\ UNCHANGED nonMktVars
    /\ ctask[t].op = "approve" /\ ctask[t].pc = "save"
    /\ IF ok
       THEN /\ content' = [content EXCEPT ![ctask[t].id].status = "approved",
                                          ![ctask[t].id].approvedAt = TRUE]
            /\ stats' = [stats EXCEPT !.contentApproved = @ + 1]
            /\ ctask' = [ctask EXCEPT ![t].pc = "instagram"]
            /\ UNCHANGED faultsLeft
       ELSE /\ faultsLeft > 0
            /\ faultsLeft' = faultsLeft - 1
            /\ ctask' = End(t, "error", "save failed")
            /\ UNCHANGED <<content, stats>>
    /\ UNCHANGED <<posterVars, queueVars, productExists, isEnabled>>

NextChannel(c) ==
    CASE c = "instagram" -> "facebook"
      [] c = "facebook" -> "pinterest"
      [] c = "pinterest" -> "save2"

\* a content post that asks the cooldown gate first
contentOutcomeGated(times, platform, ok) ==
    IF ~enabled[platform] THEN "not_configured"
    ELSE IF ~canPostWith(times, platform) THEN "rate_limited"
    ELSE IF ok THEN "success" ELSE "failed"

\* results[platform] of postContentToAll: not_configured without
\* credentials, else what the provider call gave
contentOutcome(times, platform, ok) ==
    IF ~enabled[platform] THEN "not_configured"
    ELSE IF ok THEN "success" ELSE "failed"

\* postContentToAll: Instagram, then Facebook, then Pinterest; no gate;
\* markPosted after a provider call that succeeded
ContentPost(t, ok) ==
    /\ UNCHANGED nonMktVars
    /\ ctask[t].op = "approve" /\ ctask[t].pc \in Channels
    /\ LET c == ctask[t].pc
           outcome == contentOutcome(lastPostTime, c, ok)
       IN  /\ ok => enabled[c]
           /\ lastPostTime' = IF outcome = "success"
                              THEN markPosted(lastPostTime, c)
                              ELSE lastPostTime
           /\ ctask' = [ctask EXCEPT
                           ![t].pc = NextChannel(c),
                           ![t].ok = IF outcome = "success"
                                     THEN @ \cup {c} ELSE @,
                           ![t].res[c] = outcome]
    /\ UNCHANGED <<now, enabled, post, queueVars, stats, content,
                   productExists, isEnabled, faultsLeft>>

\* status = 'posted'; postedAt; postResults; await content.save();
\* socialPostsSent += successCount.  A save that throws is caught: the call
\* returns { success: false }.
ApproveFinish(t, ok) ==
    /\ UNCHANGED nonMktVars
    /\ ctask[t].op = "approve" /\ ctask[t].pc = "save2"
    /\ IF ok
       THEN /\ content' = [content EXCEPT
                              ![ctask[t].id].status = "posted",
                              ![ctask[t].id].postedAt = TRUE,
                              ![ctask[t].id].postResults =
                                  [set |-> TRUE, ok |-> ctask[t].ok,
                                   res |-> ctask[t].res]]
            /\ stats' = [stats EXCEPT
                            !.socialPostsSent = @ + Cardinality(ctask[t].ok)]
            /\ ctask' = End(t, "done", "")
            /\ UNCHANGED faultsLeft
       ELSE /\ faultsLeft > 0
            /\ faultsLeft' = faultsLeft - 1
            /\ ctask' = End(t, "done", "auto-post failed")
            /\ UNCHANGED <<content, stats>>
    /\ UNCHANGED <<posterVars, queueVars, productExists, isEnabled>>

\* rejectContent(contentId, reason): findById and the one check
RejectFind(t, id, reason) ==
    /\ UNCHANGED nonMktVars
    /\ ctask[t].pc = "none"
    /\ LET call == [NoTask EXCEPT !.op = "reject", !.id = id,
                                  !.old = content[id].status,
                                  !.reason = reason]
       IN  ctask' = [ctask EXCEPT ![t] =
              IF content[id] = NoContent
              THEN [call EXCEPT !.pc = "error", !.err = "Content not found"]
              ELSE [call EXCEPT !.pc = "save"]]
    /\ UNCHANGED <<posterVars, queueVars, stats, content, productExists, isEnabled,
                   faultsLeft>>

\* status = 'rejected'; rejectedAt; rejectionReason; await content.save();
\* contentRejected++
RejectSave(t, ok) ==
    /\ UNCHANGED nonMktVars
    /\ ctask[t].op = "reject" /\ ctask[t].pc = "save"
    /\ IF ok
       THEN /\ content' = [content EXCEPT
                              ![ctask[t].id].status = "rejected",
                              ![ctask[t].id].rejectedAt = TRUE,
                              ![ctask[t].id].rejectionReason = ctask[t].reason]
            /\ stats' = [stats EXCEPT !.contentRejected = @ + 1]
            /\ ctask' = End(t, "done", "")
            /\ UNCHANGED faultsLeft
       ELSE /\ faultsLeft > 0
            /\ faultsLeft' = faultsLeft - 1
            /\ ctask' = End(t, "error", "save failed")
            /\ UNCHANGED <<content, stats>>
    /\ UNCHANGED <<posterVars, queueVars, productExists, isEnabled>>

\* regenerateContent(contentId): findById and the one check
RegenerateFind(t, id) ==
    /\ UNCHANGED nonMktVars
    /\ ctask[t].pc = "none"
    /\ LET call == [NoTask EXCEPT !.op = "regenerate", !.id = id,
                                  !.old = content[id].status]
       IN  ctask' = [ctask EXCEPT ![t] =
              IF content[id] = NoContent
              THEN [call EXCEPT !.pc = "error", !.err = "Content not found"]
              ELSE [call EXCEPT !.pc = "saveold",
                                !.count = content[id].regenerationCount]]
    /\ UNCHANGED <<posterVars, queueVars, stats, content, productExists, isEnabled,
                   faultsLeft>>

\* old.status = 'rejected'; old.rejectionReason = 'Regenerated';
\* await old.save()
RegenerateMarkOld(t, ok) ==
    /\ UNCHANGED nonMktVars
    /\ ctask[t].op = "regenerate" /\ ctask[t].pc = "saveold"
    /\ IF ok
       THEN /\ content' = [content EXCEPT
                              ![ctask[t].id].status = "rejected",
                              ![ctask[t].id].rejectionReason = "Regenerated"]
            /\ ctask' = [ctask EXCEPT ![t].pc = "product"]
            /\ UNCHANGED faultsLeft
       ELSE /\ faultsLeft > 0
            /\ faultsLeft' = faultsLeft - 1
            /\ ctask' = End(t, "error", "save failed")
            /\ UNCHANGED content
    /\ UNCHANGED <<posterVars, queueVars, stats, productExists, isEnabled>>

\* Product.findById(old.productId).lean();
\* if (!product) throw new Error('Product not found')
RegenerateProduct(t, ok) ==
    /\ UNCHANGED nonMktVars
    /\ ctask[t].op = "regenerate" /\ ctask[t].pc = "product"
    /\ IF ok
       THEN /\ ctask' = IF productExists
                        THEN [ctask EXCEPT ![t].pc = "create"]
                        ELSE End(t, "error", "Product not found")
            /\ UNCHANGED faultsLeft
       ELSE /\ faultsLeft > 0
            /\ faultsLeft' = faultsLeft - 1
            /\ ctask' = End(t, "error", "find failed")
    /\ UNCHANGED <<posterVars, queueVars, stats, content, productExists, isEnabled>>

\* new MarketingContent({ status: 'generating', regenerationCount:
\* (old.regenerationCount || 0) + 1, regeneratedFrom: old._id });
\* await contentDoc.save()
RegenerateCreate(t, ok) ==
    /\ UNCHANGED nonMktVars
    /\ ctask[t].op = "regenerate" /\ ctask[t].pc = "create"
    /\ IF ok
       THEN \E n \in FreeContentIds :
               /\ content' = [content EXCEPT ![n] =
                      [Content("generating") EXCEPT
                          !.regenerationCount = ctask[t].count + 1,
                          !.regeneratedFrom = ctask[t].id,
                          !.productId = content[ctask[t].id].productId]]
               /\ ctask' = [ctask EXCEPT ![t].pc = "generate", ![t].new = n]
               /\ UNCHANGED faultsLeft
       ELSE /\ faultsLeft > 0
            /\ faultsLeft' = faultsLeft - 1
            /\ ctask' = End(t, "error", "save failed")
            /\ UNCHANGED content
    /\ UNCHANGED <<posterVars, queueVars, stats, productExists, isEnabled>>

\* contentGenerator.generateForProduct(product): returns or throws
RegenerateGenerate(t, ok) ==
    /\ UNCHANGED nonMktVars
    /\ ctask[t].op = "regenerate" /\ ctask[t].pc = "generate"
    /\ IF ok
       THEN /\ ctask' = [ctask EXCEPT ![t].pc = "savenew"]
            /\ UNCHANGED faultsLeft
       ELSE /\ faultsLeft > 0
            /\ faultsLeft' = faultsLeft - 1
            /\ ctask' = Fail(t, "catch", "generation failed")
    /\ UNCHANGED <<posterVars, queueVars, stats, content, productExists, isEnabled>>

\* contentDoc.status = 'pending_approval'; await contentDoc.save();
\* contentGenerated++; return contentDoc
RegenerateSaveNew(t, ok) ==
    /\ UNCHANGED nonMktVars
    /\ ctask[t].op = "regenerate" /\ ctask[t].pc = "savenew"
    /\ IF ok
       THEN /\ content' = [content EXCEPT
                              ![ctask[t].new].status = "pending_approval"]
            /\ stats' = [stats EXCEPT !.contentGenerated = @ + 1]
            /\ ctask' = End(t, "done", "")
            /\ UNCHANGED faultsLeft
       ELSE /\ faultsLeft > 0
            /\ faultsLeft' = faultsLeft - 1
            /\ ctask' = Fail(t, "catch", "save failed")
            /\ UNCHANGED <<content, stats>>
    /\ UNCHANGED <<posterVars, queueVars, productExists, isEnabled>>

\* catch (err): contentDoc.status = 'failed'; await contentDoc.save();
\* throw err
RegenerateCatch(t, ok) ==
    /\ UNCHANGED nonMktVars
    /\ ctask[t].op = "regenerate" /\ ctask[t].pc = "catch"
    /\ ctask' = End(t, "error", ctask[t].err)
    /\ IF ok
       THEN /\ content' = [content EXCEPT ![ctask[t].new].status = "failed"]
            /\ UNCHANGED faultsLeft
       ELSE /\ faultsLeft > 0
            /\ faultsLeft' = faultsLeft - 1
            /\ UNCHANGED content
    /\ UNCHANGED <<posterVars, queueVars, stats, productExists, isEnabled>>

(***************************************************************************)
(* runContentPipeline(products, pipelineRunId)                             *)
(***************************************************************************)
\* bound: products in a batch, and products content is generated for
MaxBatch == 2

ProductIds == 1..MaxBatch

Batches == UNION { [1..n -> ProductIds] : n \in 1..MaxBatch }

\* status: { $in: ['generating', 'pending_approval', 'approved'] }
NonTerminal == {"generating", "pending_approval", "approved"}

\* MarketingContent.findOne({ productId, status: { $in: [...] } })
existing(product) ==
    { n \in ContentIds : /\ content[n] # NoContent
                         /\ content[n].productId = product
                         /\ content[n].status \in NonTerminal }

\* the document MarketingContent.updateOne({ productId, status: 'generating' })
\* updates: the first match in natural order, if any
firstGenerating(product) ==
    LET match == { n \in ContentIds : /\ content[n] # NoContent
                                      /\ content[n].productId = product
                                      /\ content[n].status = "generating" }
    IN  { n \in match : \A m \in match : n <= m }

\* a runContentPipeline call: the batch, the loop's position, the document of
\* the current product (0: none), what generateForProduct returned, the two
\* counters, and the history of the products handled so far
GenTask(batch) ==
    [op |-> "generate", pc |-> "find", batch |-> batch, idx |-> 1, id |-> 0,
     image |-> "none", generated |-> 0, failed |-> 0, out |-> <<>>]

\* the loop goes to its next product, or the call returns
Advance(call, how) ==
    LET done == [call EXCEPT
                    !.out = Append(@, [product |-> call.batch[call.idx],
                                       how |-> how, id |-> call.id,
                                       image |-> call.image]),
                    !.idx = @ + 1, !.id = 0, !.image = "none"]
    IN  [done EXCEPT !.pc = IF done.idx > Len(call.batch) THEN "done"
                            ELSE "find"]

\* if (!contentGenerator.isEnabled) return { generated: 0, skipped: n };
\* else the loop begins
GenStart(t, batch) ==
    /\ UNCHANGED nonMktVars
    /\ ctask[t].pc = "none"
    /\ ctask' = [ctask EXCEPT ![t] =
                    IF isEnabled THEN GenTask(batch)
                    ELSE [GenTask(batch) EXCEPT !.pc = "done"]]
    /\ UNCHANGED <<posterVars, queueVars, stats, content, productExists,
                   isEnabled, faultsLeft>>

\* const existing = await MarketingContent.findOne(...);
\* if (existing) continue
GenFind(t, ok) ==
    /\ UNCHANGED nonMktVars
    /\ ctask[t].op = "generate" /\ ctask[t].pc = "find"
    /\ LET call == ctask[t]
           product == call.batch[call.idx]
       IN  IF ok
           THEN /\ ctask' = [ctask EXCEPT ![t] =
                               IF existing(product) # {}
                               THEN Advance(call, "skipped")
                               ELSE [call EXCEPT !.pc = "create"]]
                /\ UNCHANGED faultsLeft
           ELSE /\ faultsLeft > 0
                /\ faultsLeft' = faultsLeft - 1
                /\ ctask' = [ctask EXCEPT ![t].pc = "catch"]
    /\ UNCHANGED <<posterVars, queueVars, stats, content, productExists,
                   isEnabled>>

\* new MarketingContent({ productId, ..., status: 'generating' });
\* await contentDoc.save()
GenCreate(t, ok) ==
    /\ UNCHANGED nonMktVars
    /\ ctask[t].op = "generate" /\ ctask[t].pc = "create"
    /\ IF ok
       THEN \E n \in FreeContentIds :
               /\ content' = [content EXCEPT ![n] =
                      [Content("generating") EXCEPT
                          !.productId = ctask[t].batch[ctask[t].idx]]]
               /\ ctask' = [ctask EXCEPT ![t].pc = "generate", ![t].id = n]
               /\ UNCHANGED faultsLeft
       ELSE /\ faultsLeft > 0
            /\ faultsLeft' = faultsLeft - 1
            /\ ctask' = [ctask EXCEPT ![t].pc = "catch"]
            /\ UNCHANGED content
    /\ UNCHANGED <<posterVars, queueVars, stats, productExists, isEnabled>>

\* contentGenerator.generateForProduct(product): a caption failure is
\* rethrown; an image failure is caught there and the result returned with
\* image.status 'failed'
GenGenerate(t, outcome) ==
    /\ UNCHANGED nonMktVars
    /\ ctask[t].op = "generate" /\ ctask[t].pc = "generate"
    /\ outcome \in {"ready", "image_failed", "caption_failed"}
    /\ IF outcome = "ready"
       THEN UNCHANGED faultsLeft
       ELSE faultsLeft > 0 /\ faultsLeft' = faultsLeft - 1
    /\ ctask' = IF outcome = "caption_failed"
                THEN [ctask EXCEPT ![t].pc = "catch",
                                   ![t].image = "caption_failed"]
                ELSE [ctask EXCEPT ![t].pc = "save", ![t].image = outcome]
    /\ UNCHANGED <<posterVars, queueVars, stats, content, productExists,
                   isEnabled>>

\* contentDoc.caption / image / generationCost; status = 'pending_approval';
\* await contentDoc.save(); generated++; contentGenerated++; the alert
\* (caught) and the pause before the next product
GenSave(t, ok) ==
    /\ UNCHANGED nonMktVars
    /\ ctask[t].op = "generate" /\ ctask[t].pc = "save"
    /\ IF ok
       THEN /\ content' = [content EXCEPT
                              ![ctask[t].id].status = "pending_approval"]
            /\ stats' = [stats EXCEPT !.contentGenerated = @ + 1]
            /\ ctask' = [ctask EXCEPT ![t] =
                            Advance([ctask[t] EXCEPT !.generated = @ + 1],
                                    "generated")]
            /\ UNCHANGED faultsLeft
       ELSE /\ faultsLeft > 0
            /\ faultsLeft' = faultsLeft - 1
            /\ ctask' = [ctask EXCEPT ![t].pc = "catch"]
            /\ UNCHANGED <<content, stats>>
    /\ UNCHANGED <<posterVars, queueVars, productExists, isEnabled>>

\* catch (err) { failed++; try { await MarketingContent.updateOne(
\* { productId, status: 'generating' }, { status: 'failed' }) } catch {} }
GenCatch(t, ok) ==
    /\ UNCHANGED nonMktVars
    /\ ctask[t].op = "generate" /\ ctask[t].pc = "catch"
    /\ LET call == ctask[t]
           product == call.batch[call.idx]
       IN  /\ ctask' = [ctask EXCEPT ![t] =
                           Advance([call EXCEPT !.failed = @ + 1], "failed")]
           /\ IF ok
              THEN /\ content' = [n \in ContentIds |->
                                    IF n \in firstGenerating(product)
                                    THEN [content[n] EXCEPT !.status = "failed"]
                                    ELSE content[n]]
                   /\ UNCHANGED faultsLeft
              ELSE /\ faultsLeft > 0
                   /\ faultsLeft' = faultsLeft - 1
                   /\ UNCHANGED content
    /\ UNCHANGED <<posterVars, queueVars, stats, productExists, isEnabled>>

(***************************************************************************)
(* Marketing: initial states and next-state relations                      *)
(***************************************************************************)
NoStats ==
    [socialPostsSent |-> 0, productsMarketed |-> 0,
     contentGenerated |-> 0, contentApproved |-> 0, contentRejected |-> 0]

\* the constructors of SocialPoster and MarketingOrchestrator, on a clock
\* that reads more than one cooldown window past the epoch
PosterStart ==
    /\ now = minPostIntervalMs
    /\ lastPostTime = [c \in Channels |-> 0]
    /\ post = [t \in PostIds |-> NoPost]
    /\ pendingProducts = <<>>
    /\ isProcessing = FALSE
    /\ qpc = "idle"
    /\ qwake = 0
    /\ stats = NoStats

ContentStart ==
    /\ content = [n \in ContentIds |-> NoContent]
    /\ ctask = [t \in OpIds |-> NoTask]
    /\ productExists = TRUE
    /\ isEnabled = TRUE

MktIdle ==
    /\ PosterStart
    /\ enabled = [c \in Channels |-> FALSE]
    /\ ContentStart

\* the deployments followed: Instagram alone has credentials, or Facebook
\* and Pinterest have
Configs ==
    { [c \in Channels |-> c = "instagram"],
      [c \in Channels |-> c # "instagram"] }

PostInit ==
    /\ PosterStart
    /\ enabled \in Configs
    /\ ContentStart

PostNext ==
    \/ \E image \in BOOLEAN : PostAllRoute(image)
    \/ \E image \in BOOLEAN : ForcePostProduct(image)
    \/ \E image \in BOOLEAN : OnProductLive(image)
    \/ ConsumerWake
    \/ \E t \in PostIds : \E c \in Channels : \E ok \in BOOLEAN :
          ChannelSettle(t, c, ok)
    \/ \E t \in PostIds : PostFinish(t)
    \/ Tick

\* the social posting queue alone: products going live, the consumer loop
\* and its posts, the clock
QueueNext ==
    \/ \E image \in BOOLEAN : OnProductLive(image)
    \/ ConsumerWake
    \/ \E t \in PostIds : \E c \in Channels : \E ok \in BOOLEAN :
          ChannelSettle(t, c, ok)
    \/ \E t \in PostIds : PostFinish(t)
    \/ Tick

\* forced posts among the consumer's and the routes' posts, at one reading
\* of the clock
ForceNext ==
    \/ \E image \in BOOLEAN : ForcePostProduct(image)
    \/ \E image \in BOOLEAN : PostAllRoute(image)
    \/ \E image \in BOOLEAN : OnProductLive(image)
    \/ \E t \in PostIds : \E c \in Channels : \E ok \in BOOLEAN :
          ChannelSettle(t, c, ok)
    \/ \E t \in PostIds : PostFinish(t)

\* one content document, in any status its life can have left it in
ContentInit ==
    /\ PosterStart
    /\ enabled \in Configs
    /\ \E s \in Statuses :
          content = [n \in ContentIds |-> IF n = 1 THEN Content(s) ELSE NoContent]
    /\ ctask = [t \in OpIds |-> NoTask]
    /\ productExists \in BOOLEAN
    /\ isEnabled = TRUE

\* approve calls among reject calls
ApproveNext ==
    \/ \E t \in OpIds : \E id \in ContentIds : ApproveFind(t, id)
    \/ \E t \in OpIds : \E ok \in BOOLEAN : ApproveSave(t, ok)
    \/ \E t \in OpIds : \E ok \in BOOLEAN : ContentPost(t, ok)
    \/ \E t \in OpIds : \E ok \in BOOLEAN : ApproveFinish(t, ok)
    \/ \E t \in OpIds : \E id \in ContentIds :
          \E reason \in {"", "reason"} : RejectFind(t, id, reason)
    \/ \E t \in OpIds : \E ok \in BOOLEAN : RejectSave(t, ok)

ContentNext ==
    \/ \E t \in OpIds : \E id \in ContentIds : ApproveFind(t, id)
    \/ \E t \in OpIds : \E ok \in BOOLEAN : ApproveSave(t, ok)
    \/ \E t \in OpIds : \E ok \in BOOLEAN : ContentPost(t, ok)
    \/ \E t \in OpIds : \E ok \in BOOLEAN : ApproveFinish(t, ok)
    \/ \E t \in OpIds : \E id \in ContentIds :
          \E reason \in {"", "reason"} : RejectFind(t, id, reason)
    \/ \E t \in OpIds : \E ok \in BOOLEAN : RejectSave(t, ok)
    \/ \E t \in OpIds : \E id \in ContentIds : RegenerateFind(t, id)
    \/ \E t \in OpIds : \E ok \in BOOLEAN : RegenerateMarkOld(t, ok)
    \/ \E t \in OpIds : \E ok \in BOOLEAN : RegenerateProduct(t, ok)
    \/ \E t \in OpIds : \E ok \in BOOLEAN : RegenerateCreate(t, ok)
    \/ \E t \in OpIds : \E ok \in BOOLEAN : RegenerateGenerate(t, ok)
    \/ \E t \in OpIds : \E ok \in BOOLEAN : RegenerateSaveNew(t, ok)
    \/ \E t \in OpIds : \E ok \in BOOLEAN : RegenerateCatch(t, ok)

\* a post-all request made while no other broadcast is under way
PostAllAlone(image) ==
    /\ \A t \in PostIds : post[t].pc # "flight"
    /\ PostAllRoute(image)

\* product broadcasts of the post-all route, one after the other, around one
\* approval of content
ChannelsNext ==
    \/ \E image \in BOOLEAN : PostAllAlone(image)
    \/ \E t \in PostIds : \E c \in Channels : \E ok \in BOOLEAN :
          ChannelSettle(t, c, ok)
    \/ \E t \in PostIds : PostFinish(t)
    \/ \E id \in ContentIds : ApproveFind(1, id)
    \/ \E t \in OpIds : \E ok \in BOOLEAN : ApproveSave(t, ok)
    \/ \E t \in OpIds : \E ok \in BOOLEAN : ContentPost(t, ok)
    \/ \E t \in OpIds : \E ok \in BOOLEAN : ApproveFinish(t, ok)

\* any set of channels with credentials; one content document awaiting
\* approval
ChannelsInit ==
    /\ PosterStart
    /\ enabled \in [Channels -> BOOLEAN]
    /\ content = [n \in ContentIds |->
                    IF n = 1 THEN Content("pending_approval") ELSE NoContent]
    /\ ctask = [t \in OpIds |-> NoTask]
    /\ productExists = TRUE
    /\ isEnabled = TRUE

\* runContentPipeline calls alone
GenerateNext ==
    \/ \E t \in OpIds : \E batch \in Batches : GenStart(t, batch)
    \/ \E t \in OpIds : \E ok \in BOOLEAN : GenFind(t, ok)
    \/ \E t \in OpIds : \E ok \in BOOLEAN : GenCreate(t, ok)
    \/ \E t \in OpIds :
          \E outcome \in {"ready", "image_failed", "caption_failed"} :
             GenGenerate(t, outcome)
    \/ \E t \in OpIds : \E ok \in BOOLEAN : GenSave(t, ok)
    \/ \E t \in OpIds : \E ok \in BOOLEAN : GenCatch(t, ok)

\* generate, approve, reject and regenerate calls, interleaved at their awaits
LifecycleNext ==
    \/ GenerateNext
    \/ ContentNext

\* an empty MarketingContent collection, or one document of product 1 in any
\* status; the content generator configured or not
GenerateInit ==
    /\ PosterStart
    /\ enabled \in Configs
    /\ \E s \in Statuses \cup {"none"} :
          content = [n \in ContentIds |->
                        IF n = 1 /\ s # "none" THEN Content(s) ELSE NoContent]
    /\ ctask = [t \in OpIds |-> NoTask]
    /\ productExists = TRUE
    /\ isEnabled \in BOOLEAN

\* the whole process at the start of each specification: the part under
\* study in its initial states, the other parts at rest
AdmitStart ==
    AdmitInit /\ faultsLeft = MaxInterleavedFaults /\ ScoreIdle /\ MktIdle

PipelineStart ==
    PipelineInit /\ faultsLeft = MaxFaults /\ ScoreIdle /\ MktIdle

ScoreStart ==
    ScoreInit /\ faultsLeft = 0 /\ RunIdle /\ MktIdle

PostStart ==
    PostInit /\ faultsLeft = 0 /\ ScoreIdle /\ RunIdle

ContentOpsStart ==
    ContentInit /\ faultsLeft = MaxInterleavedFaults /\ ScoreIdle /\ RunIdle

RerunStart ==
    PipelineInit /\ faultsLeft = MaxInterleavedFaults /\ ScoreIdle /\ MktIdle

SpecAdmit == AdmitStart /\ [][AdmitNext]_vars

SpecDrain == PostStart /\ [][DrainNext]_vars /\ DrainFairness

SpecRerun == RerunStart /\ [][RerunNext]_vars

SpecRace == AdmitStart /\ [][RaceNext]_vars

SpecPipeline == PipelineStart /\ [][PipelineNext]_vars

SpecScore == ScoreStart /\ [][ScoreProduct]_vars

SpecPost == PostStart /\ [][PostNext]_vars

SpecForce == PostStart /\ [][ForceNext]_vars

SpecQueue == PostStart /\ [][QueueNext]_vars

SpecApprove == ContentOpsStart /\ [][ApproveNext]_vars

SpecContent == ContentOpsStart /\ [][ContentNext]_vars

ChannelsStart ==
    ChannelsInit /\ faultsLeft = MaxInterleavedFaults /\ ScoreIdle /\ RunIdle

SpecChannels == ChannelsStart /\ [][ChannelsNext]_vars

GenerateStart ==
    GenerateInit /\ faultsLeft = MaxInterleavedFaults /\ ScoreIdle /\ RunIdle

SpecGenerate == GenerateStart /\ [][GenerateNext]_vars

SpecLifecycle == GenerateStart /\ [][LifecycleNext]_vars

(***************************************************************************)
(* C1                                                                      *)
(***************************************************************************)
\* C1: with start requests handled one at a time through any trigger, at most
\* one PipelineRun is queued or running at any time, and a request made while
\* a run is active is answered Conflict and creates no run record.
C1_SingletonRun ==
    /\ Cardinality(ActiveRuns) <= 1
    /\ resp.activeAtRead => resp.result = "conflict" /\ resp.runId = 0

(***************************************************************************)
(* C2                                                                      *)
(***************************************************************************)
StageOrder ==
    << "trend_discovery", "supplier_sourcing", "ai_content", "validation",
       "woocommerce_listing", "airtable_sync" >>

StageIndex(stage) == CHOOSE i \in DOMAIN StageOrder : StageOrder[i] = stage

Settled(r) == rpc[r] \in {"done", "thrown"}

ErrorsNaming(run, stage) ==
    { i \in DOMAIN run.errors : run.errors[i].stage = stage }

\* C2: when executePipeline has settled and no run.save() threw, every stage
\* N that threw has left exactly one entry naming it, with the message, in
\* results.errors, every later stage has executed, and the run is completed.
C2_StageIsolation ==
    \A r \in RunIds :
        (Settled(r) /\ ~saveFailed[r]) =>
            \A stage \in threw[r] :
                /\ runMem[r].status = "completed"
                /\ runDb[r].status = "completed"
                /\ Cardinality(ErrorsNaming(runMem[r], stage)) = 1
                /\ \A i \in ErrorsNaming(runMem[r], stage) :
                      runMem[r].errors[i].message = "timeout"
                /\ \A k \in DOMAIN StageOrder :
                      k > StageIndex(stage) => StageOrder[k] \in ran[r]

(***************************************************************************)
(* C8, C9                                                                  *)
(***************************************************************************)
PastValidation(r) ==
    rpc[r] \in {"s5", "l", "s6", "autolist", "notify", "done"}

\* C8: once the validation stage of a run is over, every active, not yet
\* approved product whose cost is 0 carries the rejection reason
\* 'No cost data'.
C8_NoCostRejected ==
    \A r \in RunIds :
        PastValidation(r) =>
            \A i \in DOMAIN catalog :
                (catalog[i].isActive /\ ~catalog[i].approved
                     /\ catalog[i].costUsd = 0)
                    => catalog[i].rejectionReason = NoCostData

\* the pipeline fields of a product
Verdict(p) ==
    [approved |-> p.approved, approvedAt |-> p.approvedAt, runId |-> p.runId,
     rejectionReason |-> p.rejectionReason]

\* the decision the claim states, for a candidate as it was read
C9_Expected(before, r) ==
    IF before.profitMarginPercent < 2000
    THEN [Verdict(before) EXCEPT
            !.rejectionReason =
                [text |-> "Low margin",
                 value |-> toFixed1(before.profitMarginPercent)]]
    ELSE IF ~before.supplierUrl
    THEN [Verdict(before) EXCEPT
            !.rejectionReason = [text |-> "No supplier found", value |-> 0]]
    ELSE IF before.researchScore >= 30 \/ before.profitMarginPercent >= 3500
    THEN [Verdict(before) EXCEPT
            !.approved = TRUE, !.approvedAt = TRUE, !.runId = r]
    ELSE Verdict(before)

C9_Evaluated(r) ==
    IF rpc[r] = "v" THEN 1..(rloc[r].idx - 1)
    ELSE IF PastValidation(r) THEN DOMAIN rloc[r].cands
    ELSE {}

\* C9: the candidates are evaluated in input order, and every evaluated
\* candidate (positive cost) has got the stated decision: low margin, then
\* missing supplier, then approval iff score >= 30 or margin >= 35, else
\* counted rejected with the reason left empty; the two counters count them.
C9_ValidationDecision ==
    \A r \in RunIds :
        LET cands == rloc[r].cands
            done == C9_Evaluated(r)
            ok == { k \in done : C9_Expected(cands[k].doc, r).approved }
        IN  /\ \A k, j \in DOMAIN cands : k < j => cands[k].id < cands[j].id
            /\ \A k \in done :
                  /\ cands[k].doc.costUsd > 0
                  /\ Verdict(catalog[cands[k].id])
                         = C9_Expected(cands[k].doc, r)
            /\ done # {} =>
                  /\ rloc[r].validated = Cardinality(ok)
                  /\ rloc[r].rejected = Cardinality(done \ ok)
            /\ PastValidation(r) =>
                  /\ runMem[r].productsValidated = Cardinality(ok)
                  /\ runMem[r].productsRejected = Cardinality(done \ ok)

\* a run has evaluated two candidates: one approved on its margin of 35%
\* with a score below 30, one below both bars and left without a reason
C9_Witness ==
    \E r \in RunIds :
        /\ rpc[r] = "s5"
        /\ \E k, j \in DOMAIN rloc[r].cands :
              /\ rloc[r].cands[k].doc.profitMarginPercent = 3500
              /\ rloc[r].cands[k].doc.researchScore = 29
              /\ catalog[rloc[r].cands[k].id].approved
              /\ rloc[r].cands[j].doc.researchScore = 29
              /\ rloc[r].cands[j].doc.profitMarginPercent = 2000
              /\ ~catalog[rloc[r].cands[j].id].approved
              /\ catalog[rloc[r].cands[j].id].rejectionReason = NoReason

(***************************************************************************)
(* C10                                                                     *)
(***************************************************************************)
C10_Score(p) ==
    Min(100, 15 + salesBonus(p) + costBonus(p) + categoryBonus(p)
             + imageBonus(p) + nameBonus(p))

C10_Components(p) ==
    /\ salesBonus(p) \in 0..25
    /\ costBonus(p) \in 0..20
    /\ categoryBonus(p) \in {0, 10}
    /\ imageBonus(p) \in {0, 5}
    /\ nameBonus(p) \in {0, 5}

C10_Value ==
    \A i \in DOMAIN scoreHist :
        /\ scoreHist[i] \in 0..100
        /\ scoreHist[i] = C10_Score(itemIn)
        /\ scoreHist[i] = scoreHist[1]
        /\ C10_Components(itemIn)

Reads(t, op) == ctask[t].pc = "none" /\ ctask'[t].op = op

\* C3: approveContent on an existing item whose status is not
\* pending_approval throws, and that step leaves every document (status,
\* timestamps, postResults), the counters and the cooldown timestamps as
\* they were and starts no post; a call that has thrown does nothing more.
C3_ApproveGuard ==
    [][\A t \in OpIds :
          /\ ( /\ Reads(t, "approve")
               /\ content[ctask'[t].id] # NoContent
               /\ content[ctask'[t].id].status # "pending_approval" )
             => /\ ctask'[t].pc = "error"
                /\ ctask'[t].err = "Cannot approve content"
                /\ UNCHANGED <<content, stats, lastPostTime, post>>
          /\ ctask[t].pc = "error" => ctask'[t] = ctask[t]]_vars

\* an approve call has been refused on an item that another approve call
\* had already moved to approved, while that other call is still posting
C3_Witness ==
    \E t, u \in OpIds :
       /\ ctask[t].op = "approve" /\ ctask[t].pc = "error"
       /\ ctask[t].err = "Cannot approve content"
       /\ ctask[t].old = "approved"
       /\ ctask[u].op = "approve" /\ ctask[u].pc \in Channels
       /\ ctask[u].id = ctask[t].id
       /\ stats.contentApproved = 1

\* C4: rejectContent is only legal from pending_approval: a call that went
\* through (status set to rejected, reason stored, contentRejected counted)
\* had read the item in pending_approval.
C4_RejectGuard ==
    \A t \in OpIds :
       (ctask[t].op = "reject" /\ ctask[t].pc = "done")
          => ctask[t].old = "pending_approval"

\* C5: when a regenerateContent call on an existing item returns or throws
\* (here: at any point after it has marked the source), the source is
\* rejected with reason 'Regenerated' and the call has left one new item,
\* regenerated from the source, with the source's count plus one.
C5_RegeneratePostcondition ==
    [][\A t \in OpIds :
          ( /\ ctask[t].op = "regenerate"
            /\ ctask[t].pc \notin {"none", "saveold", "done", "error"}
            /\ ctask'[t].pc \in {"done", "error"} )
          => LET src == ctask[t].id
                 new == ctask[t].new
             IN  /\ content'[src].status = "rejected"
                 /\ content'[src].rejectionReason = "Regenerated"
                 /\ new # 0
                 /\ content'[new].status \in Statuses
                 /\ content'[new].regeneratedFrom = src
                 /\ content'[new].regenerationCount =
                       content'[src].regenerationCount + 1]_vars

(***************************************************************************)
(* C6, C7: the cooldown gate and the forced post                           *)
(***************************************************************************)
RateLimited(t) == post[t].kind \in {"route", "queue"}

\* C6: of two rate-limited publishes attempted less than the cooldown window
\* apart, the first having succeeded on a channel, the second is refused on
\* that channel with rate_limited (so no provider call is under way or was
\* made for it); and the gate refuses a publish only while the window since
\* the last recorded post has not elapsed.
C6_CooldownGate ==
    /\ [](\A s, t \in PostIds : \A c \in Channels :
             ( /\ s < t
               /\ RateLimited(s) /\ RateLimited(t)
               /\ post[s].res[c] = "success"
               /\ post[t].at - post[s].at < minPostIntervalMs )
             => post[t].res[c] = "rate_limited")
    /\ [][\A t \in PostIds : \A c \in Channels :
             (post[t].pc = "none" /\ post'[t].res[c] = "rate_limited")
                => now - lastPostTime[c] < minPostIntervalMs]_vars

\* C7: forcePostProduct clears the cooldown timestamps of all channels, and
\* every channel's gate is evaluated for it in the same step, so that no
\* channel of a forced post is ever answered rate_limited, whatever the
\* timestamps were and whatever other posts are in flight.
C7_ForcedBypass ==
    /\ [](\A t \in PostIds : \A c \in Channels :
             post[t].kind = "forced" => post[t].res[c] # "rate_limited")
    /\ [][\A t \in PostIds :
             (post[t].pc = "none" /\ post'[t].kind = "forced")
                => \A c \in Channels :
                      /\ lastPostTime'[c] = 0
                      /\ post'[t].res[c] \in
                            {"pending", "not_configured", "no_image"}]_vars

\* a forced post is under way on a channel whose cooldown had been started
\* by a publish that is still in flight on another channel
C7_Witness ==
    \E s, t \in PostIds : \E c, d \in Channels :
       /\ s < t /\ c # d
       /\ RateLimited(s) /\ post[s].pc = "flight"
       /\ post[s].res[c] = "success" /\ post[s].res[d] = "pending"
       /\ post[t].kind = "forced" /\ post[t].at = post[s].at
       /\ post[t].res[c] = "pending"

(***************************************************************************)
(* C11, C12                                                                *)
(***************************************************************************)
\* C11: every call of executePipeline settles by returning to its caller, no
\* exception propagating out of it, and leaves the persisted run record in a
\* final status that captures the outcome.
C11_NoThrowPastBoundary ==
    \A r \in RunIds :
        Settled(r) =>
            /\ rpc[r] = "done"
            /\ runDb[r].status \in {"completed", "failed"}

\* C12: the step of executePipeline's catch block leaves the run record with
\* status failed, completedAt and durationMs set and one more log entry, of
\* level error, persists exactly that record when its save succeeds, and
\* hands the exception to the caller; from the moment an exception has
\* escaped the stages, no stage begins and no product changes.
C12_FatalError ==
    [][\A r \in RunIds :
          /\ (rpc[r] = "catch" /\ rpc'[r] # "catch") =>
                /\ runMem'[r].status = "failed"
                /\ runMem'[r].completed /\ runMem'[r].durationSet
                /\ runMem'[r].logs = Append(runMem[r].logs, "error")
                /\ runDb'[r] \in {runDb[r], runMem'[r]}
                /\ rpc'[r] \in {"thrown", "handler"}
          /\ rpc[r] \in {"catch", "thrown"} =>
                /\ ran'[r] = ran[r]
                /\ rloc'[r] = rloc[r]
                /\ catalog' = catalog]_vars

\* a run that failed in validation: recorded as failed, the exception with
\* the caller, listing and sync never begun
C12_Witness ==
    /\ rpc[1] = "thrown"
    /\ runDb[1].status = "failed"
    /\ runDb[1].completed /\ runDb[1].durationSet
    /\ "validation" \in ran[1]
    /\ "woocommerce_listing" \notin ran[1]
    /\ "airtable_sync" \notin ran[1]

(***************************************************************************)
(* C13                                                                     *)
(***************************************************************************)
\* C13: once the persisted record of a run has status completed or failed,
\* no step changes that record, neither its status nor any other field.
C13_TerminalImmutable ==
    [][\A r \in RunIds :
          runDb[r].status \in {"completed", "failed"} =>
              runDb'[r] = runDb[r]]_vars

(***************************************************************************)
(* C14                                                                     *)
(***************************************************************************)
\* C14: a start request that has read "no active run" is admitted by its
\* create step whatever the active runs are by then: unless its save throws,
\* the step adds a new record in status running to the active runs.  Two
\* requests that both read before either saved therefore leave two records
\* in status running.
C14_AdmissionRace ==
    [][\A q \in reqs :
          q \notin reqs' =>
             \/ faultsLeft' < faultsLeft /\ resp'.result = "error"
             \/ /\ resp'.result = "started"
                /\ resp'.runId \in RunIds
                /\ runDb[resp'.runId] = NoRun
                /\ runDb'[resp'.runId].status = "running"
                /\ ActiveRuns' = ActiveRuns \cup {resp'.runId}]_vars

\* both requests were between read and create together, and both records
\* are now running
C14_Witness ==
    /\ runDb[1].status = "running" /\ runDb[2].status = "running"
    /\ {runDb[1].triggeredBy, runDb[2].triggeredBy} = {"manual", "webhook"}
    /\ resp.result = "started" /\ resp.activeAtSave
    /\ reqs = {}

(***************************************************************************)
(* C15                                                                     *)
(***************************************************************************)
\* the posts a consumer loop is awaiting
ConsumerPosts ==
    { t \in PostIds : post[t].kind = "queue" /\ post[t].pc = "flight" }

\* C15: at most one consumer loop is active: the flag is set exactly while
\* the loop is at a post or in its sleep, and at most one of the loop's posts
\* is in flight; a product queued while the flag is set is appended to the
\* pending queue and nothing else of the queue or its consumer changes.
C15_SingleConsumer ==
    /\ [](/\ Cardinality(ConsumerPosts) <= 1
          /\ isProcessing <=> qpc \in {"posting", "sleeping"}
          /\ qpc = "posting" <=> ConsumerPosts # {})
    /\ [][(isProcessing
             /\ stats'.productsMarketed # stats.productsMarketed) =>
                /\ Len(pendingProducts') = Len(pendingProducts) + 1
                /\ SubSeq(pendingProducts', 1, Len(pendingProducts))
                      = pendingProducts
                /\ post' = post
                /\ isProcessing' /\ qpc' = qpc /\ qwake' = qwake]_vars

\* a product queued during the consumer's sleep between two posts, after
\* another was queued during the first post
C15_Witness ==
    /\ qpc = "sleeping"
    /\ isProcessing
    /\ Len(pendingProducts) = 2
    /\ stats.productsMarketed = 3
    /\ \E t \in PostIds : post[t].kind = "queue" /\ post[t].pc = "done"

(***************************************************************************)
(* C16                                                                     *)
(***************************************************************************)
\* C16: every product has at most one content document in status generating,
\* pending_approval or approved.
C16_OneNonTerminal ==
    \A product \in ProductIds : Cardinality(existing(product)) <= 1

(***************************************************************************)
(* C17                                                                     *)
(***************************************************************************)
\* C17: when a runContentPipeline call of a configured generator has
\* returned, it has handled every product of its batch in order; a product
\* it skipped got no document; a document it created is in pending_approval
\* only if captions and image were both generated, and is in failed if the
\* caption or the image generation failed.
C17_GenerationBatch ==
    \A t \in OpIds :
        (ctask[t].op = "generate" /\ ctask[t].pc = "done" /\ isEnabled) =>
            LET call == ctask[t]
            IN  /\ Len(call.out) = Len(call.batch)
                /\ \A i \in DOMAIN call.out :
                      LET o == call.out[i]
                      IN  /\ o.product = call.batch[i]
                          /\ o.how = "skipped" => o.id = 0
                          /\ (o.id # 0
                                /\ content[o.id].status = "pending_approval")
                                => o.image = "ready"
                          /\ (o.id # 0
                                /\ o.image \in {"image_failed",
                                                "caption_failed"})
                                => content[o.id].status = "failed"

(***************************************************************************)
(* C18                                                                     *)
(***************************************************************************)
\* C18: an approveContent call that found its item in pending_approval goes
\* from its first save straight to the post on the channels; no channel of a
\* content post is ever refused as rate_limited; and the step by which the
\* call reports success leaves the item in status posted with postResults
\* holding an outcome for each channel.
C18_ApproveThenPost ==
    /\ [](\A t \in OpIds : \A c \in Channels :
             ctask[t].res[c] # "rate_limited")
    /\ [][\A t \in OpIds :
            /\ (ctask[t].op = "approve" /\ ctask[t].pc = "save"
                  /\ ctask'[t].pc \notin {"save", "error"})
                  => /\ ctask[t].old = "pending_approval"
                     /\ content'[ctask[t].id].status = "approved"
                     /\ ctask'[t].pc = "instagram"
            /\ (ctask[t].op = "approve" /\ ctask[t].pc = "save2"
                  /\ ctask'[t].pc = "done" /\ ctask'[t].err = "")
                  => LET doc == content'[ctask[t].id]
                     IN  /\ doc.status = "posted"
                         /\ doc.postedAt /\ doc.postResults.set
                         /\ \A c \in Channels :
                               doc.postResults.res[c] \in
                                  {"success", "failed", "not_configured"}
                         /\ doc.postResults.res = ctask[t].res]_vars

\* an approved item posted on a channel whose cooldown window was open: a
\* second approval of the same item has posted there at the same reading of
\* the clock, and the first has reported success
C18_Witness ==
    \E t \in OpIds : \E c \in Channels :
        /\ ctask[t].op = "approve" /\ ctask[t].pc = "save2"
        /\ ctask[t].res[c] = "success"
        /\ content[ctask[t].id].status = "posted"
        /\ content[ctask[t].id].postResults.res[c] = "success"
        /\ ~canPost(c)

(***************************************************************************)
(* C19                                                                     *)
(***************************************************************************)
\* the status changes of the forward state machine
Forward ==
    { <<"generating", "pending_approval">>, <<"generating", "failed">>,
      <<"pending_approval", "approved">>, <<"pending_approval", "rejected">>,
      <<"approved", "posted">> }

\* C19: every change of a content document's status is one of the forward
\* changes, or is regenerateContent marking the prior item rejected with
\* reason 'Regenerated'.
C19_ForwardStatus ==
    [][\A n \in ContentIds :
          (content[n] # NoContent
             /\ content'[n].status # content[n].status) =>
                \/ <<content[n].status, content'[n].status>> \in Forward
                \/ /\ content'[n].status = "rejected"
                   /\ content'[n].rejectionReason = "Regenerated"]_vars

(***************************************************************************)
(* C20                                                                     *)
(***************************************************************************)
\* C20: when executePipeline has returned from a completed run, the
\* orchestrator's onProductLive has been invoked once for each product the
\* run listed and for no other: the invocations counted equal the run's
\* listed count.
C20_MarketingNotified ==
    \A r \in RunIds :
        (rpc[r] = "done" /\ runMem[r].status = "completed") =>
            stats.productsMarketed = runMem[r].productsListed

(***************************************************************************)
(* C21, C22                                                                *)
(***************************************************************************)
\* C21: the step that persists a run as completed is followed by the
\* auto-list sweep, whatever stages failed; the sweep leaves the run
\* completed, also when a call inside it throws; and after a sweep in which
\* nothing threw, no active product with a positive selling price has a
\* status that is missing, empty, draft, discovered or analyzed.
C21_SweepOnCompletion ==
    [][\A r \in RunIds :
          /\ (runDb[r].status # "completed" /\ runDb'[r].status = "completed")
                => rpc'[r] = "autolist"
          /\ (rpc[r] = "autolist" /\ rpc'[r] # "autolist")
                => /\ rpc'[r] = "notify"
                   /\ runDb'[r].status = "completed"
                   /\ runMem'[r].status = "completed"
                   /\ faultsLeft' = faultsLeft =>
                         \A i \in DOMAIN catalog' : ~isUnlisted(catalog'[i])]_vars

\* C22: once a run's sweep has gone through all the products it found (at
\* least one), a second sweep of the unchanged catalog finds no product to
\* list and leaves the catalog as it is.
C22_SweepIdempotent ==
    \A r \in RunIds :
        (rpc[r] \in {"notify", "done"} /\ runMem[r].productsAutoListed >= 1) =>
            /\ Len(unlisted(catalog)) = 0
            /\ swept(catalog, Len(unlisted(catalog))) = catalog

(***************************************************************************)
(* C23                                                                     *)
(***************************************************************************)
\* the outcomes a channel's entry of the result can hold
Outcomes ==
    {"success", "error", "failed", "not_configured", "rate_limited",
     "no_image"}

\* C23: the step that settles one channel of a product broadcast or of a
\* content post leaves every other channel's result and cooldown timestamp
\* as they were; a content post goes on to its next channel whatever the
\* outcome; the returned result holds an outcome for each of the three
\* channels, the one gathered before the report to the alerting channel.
C23_ChannelIndependence ==
    /\ [](\A t \in PostIds :
             post[t].pc = "done" => \A c \in Channels : post[t].res[c] \in Outcomes)
    /\ [][/\ \A t \in PostIds : \A c \in Channels :
                (post[t].pc = "flight" /\ post'[t].res[c] # post[t].res[c]) =>
                    \A d \in Channels \ {c} :
                        /\ post'[t].res[d] = post[t].res[d]
                        /\ lastPostTime'[d] = lastPostTime[d]
          /\ \A t \in PostIds :
                (post[t].pc = "flight" /\ post'[t].pc = "done") =>
                    post'[t].res = post[t].res
          /\ \A t \in OpIds :
                (ctask[t].op = "approve" /\ ctask[t].pc \in Channels
                    /\ ctask'[t] # ctask[t]) =>
                    /\ ctask'[t].pc = NextChannel(ctask[t].pc)
                    /\ ctask'[t].res[ctask[t].pc] \in Outcomes
                    /\ \A d \in Channels \ {ctask[t].pc} :
                          /\ ctask'[t].res[d] = ctask[t].res[d]
                          /\ lastPostTime'[d] = lastPostTime[d]
          /\ \A t \in OpIds :
                (ctask[t].op = "approve" /\ ctask[t].pc = "save2"
                    /\ ctask'[t].pc = "done" /\ ctask'[t].err = "") =>
                    content'[ctask[t].id].postResults.res = ctask[t].res]_vars

\* a broadcast and a content post that each failed on one channel and went
\* through on a later one
C23_Witness ==
    /\ \E t \in PostIds :
          /\ post[t].pc = "done"
          /\ post[t].res["instagram"] = "error"
          /\ post[t].res["pinterest"] = "success"
    /\ \E n \in ContentIds :
          /\ content[n].status = "posted"
          /\ content[n].postResults.res["instagram"] = "failed"
          /\ content[n].postResults.res["facebook"] = "success"

\* C24: the queue consumer posts one product at a time in the order of
\* enqueueing, and between finishing one product and popping the next it
\* waits the inter-post delay whatever the queue depth: of two posts of the
\* consumer the earlier one has returned before the later one starts, and the
\* later one starts no sooner than postDelayMs after the earlier one started
\* (so, all the more, after it finished)
C24_QueueThrottle ==
    \A u, t \in PostIds :
       (u < t /\ post[u].kind = "queue" /\ post[t].kind = "queue") =>
          /\ post[u].pc = "done"
          /\ post[t].at >= post[u].at + postDelayMs

\* run r evaluates the candidate at position k of its list in this step
Evaluates(r, k) ==
    /\ rpc[r] = "v"
    /\ rloc[r].idx = k
    /\ rloc'[r].idx = k + 1

\* run r makes its candidates query in this step
Queries(r) == rpc[r] = "s4" /\ rpc'[r] = "v"

\* the products the query of run r may return: the first `limit` in the
\* order of the collection among those unapproved, active, with a cost and
\* with an empty rejection reason
WithinLimit(r, i) ==
    Cardinality({ j \in 1..i : isCandidate(catalog[j]) })
       <= OrDefault(runMem[r].maxProducts, DefaultValidateMax)

\* C25 (amended): a run evaluates each product at most once; when runs follow
\* one another, a product is evaluated only while its stored rejection reason
\* is empty, so a product rejected with a reason by this run or by an earlier
\* one is not evaluated again; and a product whose reason is empty (cleared)
\* is returned by a run's candidates query when it is unapproved, active,
\* with a cost, and among the first maxProducts (default 50) such products
C25_RejectionNotPermanent ==
    [][ \A r \in RunIds :
          /\ \A k \in 1..NumProducts :
                (Evaluates(r, k) /\ k <= Len(rloc[r].cands)) =>
                   /\ catalog[rloc[r].cands[k].id].rejectionReason = NoReason
                   /\ \A j \in 1..(k - 1) :
                         rloc[r].cands[j].id # rloc[r].cands[k].id
          /\ Queries(r) =>
                \A i \in DOMAIN catalog :
                   (isCandidate(catalog[i]) /\ WithinLimit(r, i)) <=>
                      (\E k \in DOMAIN rloc'[r].cands :
                          rloc'[r].cands[k].id = i) ]_vars

\* the second run, made with maxProducts 1, has finished its validation: it
\* has evaluated one product and passed over another that the first run
\* had rejected with a reason
C25_Witness ==
    /\ rpc[2] \in {"s5", "l"}
    /\ runMem[2].maxProducts = 1
    /\ Len(rloc[2].cands) = 1
    /\ \E i \in DOMAIN catalog :
          /\ catalog[i].rejectionReason # NoReason
          /\ \E k \in DOMAIN rloc[1].cands : rloc[1].cands[k].id = i

\* C25 (as stated): a product whose rejection reason is empty (cleared), and
\* which is unapproved, active and has a cost, is evaluated again by every
\* later run that makes its candidates query
C25_AsStated ==
    [][ \A r \in RunIds :
          Queries(r) =>
             \A i \in DOMAIN catalog :
                isCandidate(catalog[i]) =>
                   \E k \in DOMAIN rloc'[r].cands : rloc'[r].cands[k].id = i
      ]_vars

\* C26: every admitted run ends persisted as completed or failed: a run whose
\* execution has stopped (executePipeline returned or threw, and the caller's
\* handler is through) is not left persisted as queued or running, where it
\* would block every later start request
C26_RunTerminatesInStore ==
    \A r \in RunIds :
       rpc[r] \in {"done", "thrown"} =>
          runDb[r].status \in {"completed", "failed"}

\* the consumer leaves its sleep and pops a product, posted as t
PopsAfterSleep(t) ==
    /\ qpc = "sleeping"
    /\ qpc' = "posting"
    /\ post[t].pc = "none"
    /\ post'[t].kind = "queue"

\* the post the consumer made last
LastConsumerPost ==
    CHOOSE u \in PostIds :
       /\ post[u].kind = "queue"
       /\ \A v \in PostIds : post[v].kind = "queue" => v <= u

\* every product handed to the queue is pending or has been posted once
PoppedOnce ==
    Cardinality({ t \in PostIds : post[t].kind = "queue" })
       + Len(pendingProducts) = stats.productsMarketed

C28_IdleMeansEmpty == ~isProcessing => pendingProducts = <<>>

\* the consumer has gone back to idle after posting a product that was queued
\* while it was busy
C28_Witness ==
    /\ ~isProcessing
    /\ stats.productsMarketed >= 2
    /\ \A t \in {1, 2} : post[t].kind = "queue" /\ post[t].pc = "done"
    /\ post[2].at >= post[1].at + postDelayMs

\* every product handed to the queue has been posted, and the consumer is idle
Drained ==
    /\ ~isProcessing
    /\ qpc = "idle"
    /\ pendingProducts = <<>>
    /\ Cardinality({ t \in PostIds :
                       post[t].kind = "queue" /\ post[t].pc = "done" })
          = stats.productsMarketed

\* C29: when every post call returns or throws and products stop going live,
\* every product handed to queueSocialPost is popped and handed to
\* postProductToAll exactly once, and the consumer returns to idle for good
C29_QueueDrains == [](PoppedOnce /\ C28_IdleMeansEmpty) /\ <>[]Drained

\* the queue has drained after as many products as are followed went live
C29_Witness ==
    /\ Drained
    /\ stats.productsMarketed = MaxPosts
    /\ now > minPostIntervalMs

\* C30: once runContentPipeline or regenerateContent has returned or thrown,
\* no content item created by that call is still in status generating
C30_NoLeftoverGenerating ==
    \A t \in OpIds :
       /\ (ctask[t].op = "generate" /\ ctask[t].pc = "done") =>
             \A i \in DOMAIN ctask[t].out :
                ctask[t].out[i].id # 0 =>
                   content[ctask[t].out[i].id].status # "generating"
       /\ (ctask[t].op = "regenerate" /\ ctask[t].pc \in {"done", "error"}
             /\ ctask[t].new # 0) =>
             content[ctask[t].new].status # "generating"

=============================================================================
